---- MODULE Spec2Model ----
(***************************************************************************)
(* CodeCraftHub user service: the authentication / authorisation core.     *)
(*                                                                         *)
(* The model follows a request through the Express route stack of          *)
(* src/src/routes/userRoutes.js: requireAuth, requireRole('admin') and the *)
(* controller handler are separate callbacks, chained by next().  Tokens   *)
(* are modelled by what jsonwebtoken does with them: a payload, and an     *)
(* HMAC that is a function of the signing key and of the payload.          *)
(*                                                                         *)
(* src/src/middlewares/authMiddleware.js holds two definitions of          *)
(* requireAuth and of requireRole.  Both are modelled; mwDef says which    *)
(* of the two the running build uses.  In the same way ctlDef says which   *)
(* controller the build has (1: src/unnamed/part_002, 2:                   *)
(* src/unnamed/part_003) and svcDef which of the two definitions of        *)
(* userService in src/src/services/userService.js, and dbDef which of the   *)
(* two definitions of connectMongo in src/unnamed/part_000.  The requests  *)
(* are served once start() has connected: mongo is the state of that       *)
(* connection attempt.                                                     *)
(*                                                                         *)
(* A handler that awaits the store twice (register, login) is two actions: *)
(* the part up to the first answer of the store, and the part that writes. *)
(***************************************************************************)
EXTENDS Integers, Sequences, FiniteSets, TLC

VARIABLES env, mwDef, ctlDef, svcDef, dbDef, mongo, now, users, issued, reqs, served

vars == <<env, mwDef, ctlDef, svcDef, dbDef, mongo, now, users, issued, reqs, served>>

\* what is fixed when the service is built and started
build == <<env, mwDef, ctlDef, svcDef, dbDef>>

(***************************************************************************)
(* Bounds                                                                  *)
(***************************************************************************)
\* the clock runs over 0..MaxTime
MaxTime == 2
\* requests the service receives in one run
MaxRequests == 3

\* lifetimes of the two token classes, in clock ticks (env.accessTtl is
\* shorter than env.refreshTtl)
AccessTtl == 1
RefreshTtl == 2

Undefined == "undefined"

Roles == {"student", "mentor", "admin"}
Secrets == {"k1", "k2"}
\* the connections a request can arrive on
ReqIds == {1}

(***************************************************************************)
(* Strings that the code inspects character by character                   *)
(***************************************************************************)
toLowerCase(c) ==
  CASE c = "A" -> "a"
    [] c = "B" -> "b"
    [] c = "E" -> "e"
    [] c = "R" -> "r"
    [] c = "C" -> "c"
    [] c = "X" -> "x"
    [] OTHER -> c

ToLower(w) == [k \in 1..Len(w) |-> toLowerCase(w[k])]

Bearer == <<"B", "e", "a", "r", "e", "r">>
SchemeWords ==
  { Bearer,
    <<"b", "e", "a", "r", "e", "r">>,
    <<"B", "E", "A", "R", "E", "R">>,
    <<"B", "a", "s", "i", "c">>,
    <<>> }

(***************************************************************************)
(* jsonwebtoken                                                            *)
(***************************************************************************)
\* the HMAC of a payload under a key
Hmac(key, sub, role, typ, iat, exp) == <<key, sub, role, typ, iat, exp>>

\* a string that is not a JWT at all
Garbage ==
  [kind |-> "garbage", sub |-> Undefined, role |-> Undefined, typ |-> Undefined,
   iat |-> 0, exp |-> 0, sig |-> <<>>]
\* the empty string
EmptyString ==
  [kind |-> "empty", sub |-> Undefined, role |-> Undefined, typ |-> Undefined,
   iat |-> 0, exp |-> 0, sig |-> <<>>]
\* no value (null / undefined)
NoToken ==
  [kind |-> "none", sub |-> Undefined, role |-> Undefined, typ |-> Undefined,
   iat |-> 0, exp |-> 0, sig |-> <<>>]

\* jwt.sign(payload, secret, { expiresIn }) at time clock
jwtSign(sub, role, typ, secret, ttl, clock) ==
  [kind |-> "jwt", sub |-> sub, role |-> role, typ |-> typ,
   iat |-> clock, exp |-> clock + ttl,
   sig |-> Hmac(secret, sub, role, typ, clock, clock + ttl)]

\* jwt.verify(token, secret): the message of the error it throws, "" when it
\* returns the payload
jwtVerifyError(token, secret, clock) ==
  IF token.kind \in {"none", "empty"} THEN "jwt must be provided"
  ELSE IF token.kind # "jwt" THEN "jwt malformed"
  ELSE IF token.sig # Hmac(secret, token.sub, token.role, token.typ, token.iat, token.exp)
       THEN "invalid signature"
  ELSE IF clock >= token.exp THEN "jwt expired"
  ELSE ""

jwtVerify(token, secret, clock) == jwtVerifyError(token, secret, clock) = ""

\* an error thrown by a library: it has a message and no status
LibraryError(message) == [status |-> 0, message |-> message]

\* signAccess signing with the secret of the other token class
signAccess_RefreshSecret(sub, role, clock) ==
  jwtSign(sub, role, Undefined, env.jwtRefreshSecret, AccessTtl, clock)

signAccess(sub, role, clock) ==
  jwtSign(sub, role, Undefined, env.jwtAccessSecret, AccessTtl, clock)

\* signRefresh signing with the secret of the other token class
signRefresh_AccessSecret(sub, clock) ==
  jwtSign(sub, Undefined, "refresh", env.jwtAccessSecret, RefreshTtl, clock)

signRefresh(sub, clock) ==
  jwtSign(sub, Undefined, "refresh", env.jwtRefreshSecret, RefreshTtl, clock)

(***************************************************************************)
(* The Authorization header: the scheme word, then the words that follow,  *)
(* each one preceded by one space.  No header at all reads as ''.          *)
(***************************************************************************)
NoHeader == [scheme |-> <<>>, rest |-> <<>>]

\* the header is the word Bearer, one space, and the token t
BearerHeader(t) == [scheme |-> Bearer, rest |-> <<t>>]

\* h.split(' ')
HeaderParts(h) == 1 + Len(h.rest)

\* first definition
getBearerToken(h) ==
  IF HeaderParts(h) = 2 /\ ToLower(h.scheme) = ToLower(Bearer)
  THEN h.rest[1]
  ELSE NoToken

\* second definition: hdr.startsWith('Bearer ') ? hdr.slice(7) : null
sliceBearer(h) ==
  IF h.scheme = Bearer /\ Len(h.rest) >= 1
  THEN IF Len(h.rest) = 1 THEN h.rest[1] ELSE Garbage
  ELSE NoToken

\* !token
Falsy(t) == t.kind \in {"none", "empty"}

(***************************************************************************)
(* Requests                                                                *)
(***************************************************************************)
\* req.user before any middleware has set it
NoUser ==
  [set |-> FALSE, sub |-> Undefined, role |-> Undefined, typ |-> Undefined,
   iat |-> -1, exp |-> -1]

NoError == [status |-> 0, message |-> ""]
\* docs: the documents in the body of the response
NoResponse ==
  [status |-> 0, message |-> "", accessToken |-> NoToken, refreshToken |-> NoToken,
   docs |-> {}]

createError(status, message) == [status |-> status, message |-> message]

\* req.body of the public routes
NoBody ==
  [email |-> <<>>, password |-> Undefined, name |-> Undefined,
   refreshToken |-> NoToken]

\* a patch names the fields it sets
NoPatch ==
  [has |-> {}, name |-> "", role |-> Undefined, isActive |-> TRUE,
   lastLoginAt |-> -1, failedLoginCount |-> 0]

\* await, found: where a handler is suspended and the documents it holds in
\* its local variables meanwhile
IdleReq ==
  [st |-> "idle", route |-> "none", hdr |-> NoHeader, body |-> NoBody,
   id |-> Undefined, patch |-> NoPatch, user |-> NoUser, pc |-> 0, ran |-> <<>>,
   await |-> "", found |-> {}, err |-> NoError, res |-> NoResponse]

\* the route table: the callbacks of each route, in the order given to the router
Router ==
  [register    |-> <<"register">>,
   login       |-> <<"login">>,
   refresh     |-> <<"refresh">>,
   me          |-> <<"requireAuth", "me">>,
   updateMe    |-> <<"requireAuth", "updateMe">>,
   list        |-> <<"requireAuth", "requireRole", "list">>,
   getById     |-> <<"requireAuth", "requireRole", "getById">>,
   adminUpdate |-> <<"requireAuth", "requireRole", "adminUpdate">>]

Routes == DOMAIN Router
AdminRoutes == {"list", "getById", "adminUpdate"}
AdminHandlers == {"list", "getById", "adminUpdate"}
ProtectedHandlers == {"me", "updateMe"} \cup AdminHandlers
\* the argument of requireRole in the route table
GuardRole == "admin"

\* the callback a request is about to run
Stage(r) == IF r.st = "run" THEN Router[r.route][r.pc] ELSE "none"

\* next(): go on to the following callback of the route
CallNext(r, stage) == [r EXCEPT !.pc = r.pc + 1, !.ran = Append(r.ran, stage)]
\* next(err): skip the remaining callbacks, go to the error handler
CallNextErr(r, stage, e) ==
  [r EXCEPT !.st = "error", !.err = e, !.ran = Append(r.ran, stage),
            !.await = "", !.found = {}]
\* res.status(s).json(...)
Respond(r, stage, response) ==
  [r EXCEPT !.st = "done", !.res = response, !.ran = Append(r.ran, stage),
            !.await = "", !.found = {}]

(***************************************************************************)
(* src/src/middlewares/authMiddleware.js                                   *)
(***************************************************************************)
\* first definition of requireAuth: what the try block throws (NoError when
\* it runs to the end)
requireAuthThrown1(r, secret, clock) ==
  LET token == getBearerToken(r.hdr) IN
  IF Falsy(token) THEN createError(401, "Unauthorised")
  ELSE IF ~jwtVerify(token, secret, clock)
       THEN LibraryError(jwtVerifyError(token, secret, clock))
       ELSE NoError

\* requireAuth setting req.user from the decoded token before verifying it
requireAuth1_AttachFirst(r, secret, clock) ==
  LET token == getBearerToken(r.hdr)
      e == requireAuthThrown1(r, secret, clock)
      attached == [r EXCEPT !.user =
                     [set |-> TRUE, sub |-> token.sub, role |-> token.role,
                      typ |-> Undefined, iat |-> -1, exp |-> -1]] IN
  IF Falsy(token)
  THEN CallNextErr(r, "requireAuth", createError(401, "Unauthorised"))
  ELSE IF e # NoError
       THEN CallNextErr(attached, "requireAuth", createError(401, "Unauthorised"))
       ELSE CallNext(attached, "requireAuth")

requireAuth1(r, secret, clock) ==
  LET token == getBearerToken(r.hdr)
      e == requireAuthThrown1(r, secret, clock) IN
  IF e # NoError
  THEN \* catch (_e)
       CallNextErr(r, "requireAuth", createError(401, "Unauthorised"))
  ELSE CallNext([r EXCEPT !.user =
                   [set |-> TRUE, sub |-> token.sub, role |-> token.role,
                    typ |-> Undefined, iat |-> -1, exp |-> -1]],
                "requireAuth")

\* second definition of requireAuth
requireAuthThrown2(r, secret, clock) ==
  LET token == sliceBearer(r.hdr) IN
  IF Falsy(token) THEN createError(401, "Missing token")
  ELSE IF ~jwtVerify(token, secret, clock)
       THEN LibraryError(jwtVerifyError(token, secret, clock))
       ELSE NoError

\* requireAuth taking the role from the account record, not from the token
requireAuth2_StoreRole(r, secret, clock) ==
  LET token == sliceBearer(r.hdr)
      e == requireAuthThrown2(r, secret, clock) IN
  IF e # NoError
  THEN CallNextErr(r, "requireAuth", createError(401, "Unauthorised"))
  ELSE CallNext([r EXCEPT !.user =
                   [set |-> TRUE, sub |-> token.sub,
                    role |-> IF token.sub \in DOMAIN users
                             THEN users[token.sub].role ELSE token.role,
                    typ |-> token.typ, iat |-> token.iat, exp |-> token.exp]],
                "requireAuth")

requireAuth2(r, secret, clock) ==
  LET token == sliceBearer(r.hdr)
      e == requireAuthThrown2(r, secret, clock) IN
  IF e # NoError
  THEN \* catch (_e)
       CallNextErr(r, "requireAuth", createError(401, "Unauthorised"))
  ELSE CallNext([r EXCEPT !.user =
                   [set |-> TRUE, sub |-> token.sub, role |-> token.role,
                    typ |-> token.typ, iat |-> token.iat, exp |-> token.exp]],
                "requireAuth")

\* requireRole checking only that a role is present
roleGuard1_AnyRole(r, role) ==
  IF ~r.user.set \/ r.user.role = Undefined
  THEN CallNextErr(r, "requireRole", createError(401, "Unauthorised"))
  ELSE CallNext(r, "requireRole")

\* first definition of requireRole(role)
roleGuard1(r, role) ==
  IF ~r.user.set \/ r.user.role = Undefined
  THEN CallNextErr(r, "requireRole", createError(401, "Unauthorised"))
  ELSE IF r.user.role # role
       THEN CallNextErr(r, "requireRole", createError(403, "Forbidden"))
       ELSE CallNext(r, "requireRole")

\* requireRole answering a role that is not allowed like a missing identity
roleGuard2_Unauthorised(r, roles) ==
  IF ~r.user.set \/ r.user.role \notin roles
  THEN CallNextErr(r, "requireRole", createError(401, "Unauthorised"))
  ELSE CallNext(r, "requireRole")

\* second definition of requireRole(...roles)
roleGuard2(r, roles) ==
  IF ~r.user.set \/ r.user.role \notin roles
  THEN CallNextErr(r, "requireRole", createError(403, "Forbidden"))
  ELSE CallNext(r, "requireRole")

requireAuth(i) ==
  /\ Stage(reqs[i]) = "requireAuth"
  /\ reqs' = [reqs EXCEPT ![i] =
                IF mwDef = 1
                THEN requireAuth1(reqs[i], env.jwtAccessSecret, now)
                ELSE requireAuth2(reqs[i], env.jwtAccessSecret, now)]
  /\ UNCHANGED <<build, mongo, now, users, issued, served>>

requireRole(i) ==
  /\ Stage(reqs[i]) = "requireRole"
  /\ reqs' = [reqs EXCEPT ![i] =
                IF mwDef = 1
                THEN roleGuard1(reqs[i], GuardRole)
                ELSE roleGuard2(reqs[i], {GuardRole})]
  /\ UNCHANGED <<build, mongo, now, users, issued, served>>

(***************************************************************************)
(* src/src/utils/errorHandler.js                                           *)
(***************************************************************************)
errorResponse(err) ==
  [NoResponse EXCEPT
     !.status = IF err.status = 0 THEN 500 ELSE err.status,
     !.message = IF err.message = "" THEN "Internal server error" ELSE err.message]

errorHandler(i) ==
  /\ reqs[i].st = "error"
  /\ reqs' = [reqs EXCEPT ![i] =
                [@ EXCEPT !.st = "done", !.res = errorResponse(reqs[i].err)]]
  /\ UNCHANGED <<build, mongo, now, users, issued, served>>

(***************************************************************************)
(* The account store (src/src/models/userModel.js) and its service         *)
(***************************************************************************)
EmailA == <<"a", "@", "x", ".", "c">>
EmailB == <<"b", "@", "x", ".", "c">>

EmailC == <<"c", "@", "x", ".", "c">>
EmailT == <<"t", "@", "x", ".", "c">>

\* argon2.hash(password): a digest in PHC format that embeds the salt
argon2Hash(password, salt) == <<"argon2id", salt, password>>
\* a stored passwordHash that is no PHC string: 'hash'
Malformed == <<"hash">>
\* argon2.verify(digest, password): what it throws (NoError when it returns);
\* it first parses the digest as a PHC string
argon2VerifyThrown(digest) ==
  IF Len(digest) # 3
  THEN LibraryError("pchstr must contain a $ as first char")
  ELSE NoError
\* argon2.verify(digest, password)
argon2Verify(digest, password) == digest[1] = "argon2id" /\ digest[3] = password

NoDate == -1

\* the accounts in the store when the service starts: an admin, and a second
\* account with the given role
SeedUsers(role) ==
  [u1 |-> [email |-> EmailA, name |-> "Ann", role |-> "admin",
           passwordHash |-> argon2Hash("pw1", "s1"), isActive |-> TRUE,
           lastLoginAt |-> NoDate, failedLoginCount |-> 0],
   u2 |-> [email |-> EmailB, name |-> "Bob", role |-> role,
           passwordHash |-> argon2Hash("pw2", "s2"), isActive |-> TRUE,
           lastLoginAt |-> NoDate, failedLoginCount |-> 0]]

\* an account that was not made by register: its passwordHash is 'hash', as
\* in tests/userService.test.js
LegacyUsers ==
  [u3 |-> [email |-> EmailT, name |-> "Test User", role |-> "student",
           passwordHash |-> Malformed, isActive |-> TRUE,
           lastLoginAt |-> NoDate, failedLoginCount |-> 0]]

\* userService.getById: is there a document with this id
HasId(id) == id \in DOMAIN users
\* userService.getByEmail: the ids of the documents with this email
IdsByEmail(email) == {id \in DOMAIN users : users[id].email = email}

\* the fields the schema marks select: false
SelectFalse == {"passwordHash", "resetTokenHash"}

\* .lean().exec(): the plain object a query gives for document id of store, with
\* the fields that are not select: false and those asked for with '+'
Lean(store, id, plus) ==
  [f \in {"_id"} \cup (DOMAIN store[id] \ (SelectFalse \ plus)) |->
     IF f = "_id" THEN id ELSE store[id][f]]

\* findOne: one of the documents that match, none when there is none
FindOne(docs) == IF docs = {} THEN {} ELSE {CHOOSE d \in docs : TRUE}

\* userService.getByEmail, first definition: getByEmail(email)
getByEmail1(email, includePassword) ==
  FindOne({Lean(users, id, {}) : id \in IdsByEmail(email)})

\* userService.getByEmail, second definition:
\* getByEmail(email, { includePassword = false } = {})
getByEmail2(email, includePassword) ==
  FindOne({Lean(users, id, IF includePassword THEN {"passwordHash"} ELSE {}) :
             id \in IdsByEmail(email)})

getByEmail(email, includePassword) ==
  IF svcDef = 1
  THEN getByEmail1(email, includePassword)
  ELSE getByEmail2(email, includePassword)

\* the ids the store gives to new documents, in this order
IdPool == <<"u1", "u2", "u3", "u4", "u5", "u6", "u7", "u8">>
NewId == IdPool[Cardinality(DOMAIN users) + 1]

\* a collection without the unique index on email
createThrown_NoIndex(email) == NoError

\* User.create(data): what it throws; the unique index on email refuses a
\* second document with the same email
createThrown(email) ==
  IF IdsByEmail(email) # {}
  THEN LibraryError("E11000 duplicate key error")
  ELSE NoError

\* User.create(data): the document it makes, with the defaults of the schema
NewUser(email, name, passwordHash, role) ==
  [email |-> email, name |-> name, role |-> role, passwordHash |-> passwordHash,
   isActive |-> TRUE, lastLoginAt |-> NoDate, failedLoginCount |-> 0]

\* userService.create: the store after it
create(email, name, passwordHash, role) ==
  users @@ (NewId :> NewUser(email, name, passwordHash, role))

\* an update that replaces the document by the patch: the fields the patch
\* does not name go back to the defaults of the schema
ApplyPatch_Overwrite(u, patch) ==
  [u EXCEPT !.name = IF "name" \in patch.has THEN patch.name ELSE "",
            !.role = IF "role" \in patch.has THEN patch.role ELSE "student",
            !.isActive = IF "isActive" \in patch.has THEN patch.isActive ELSE TRUE,
            !.lastLoginAt =
               IF "lastLoginAt" \in patch.has THEN patch.lastLoginAt ELSE NoDate,
            !.failedLoginCount =
               IF "failedLoginCount" \in patch.has THEN patch.failedLoginCount ELSE 0]

\* userService.updateById: findByIdAndUpdate(id, patch, { new: true })
ApplyPatch(u, patch) ==
  [u EXCEPT !.name = IF "name" \in patch.has THEN patch.name ELSE @,
            !.role = IF "role" \in patch.has THEN patch.role ELSE @,
            !.isActive = IF "isActive" \in patch.has THEN patch.isActive ELSE @,
            !.lastLoginAt =
               IF "lastLoginAt" \in patch.has THEN patch.lastLoginAt ELSE @,
            !.failedLoginCount =
               IF "failedLoginCount" \in patch.has THEN patch.failedLoginCount ELSE @]

updateById(id, patch) ==
  IF HasId(id) THEN [users EXCEPT ![id] = ApplyPatch(@, patch)] ELSE users

(***************************************************************************)
(* Validation schemas of the controller                                    *)
(***************************************************************************)
Count(w, c) == Cardinality({k \in 1..Len(w) : w[k] = c})
Positions(w, c) == {k \in 1..Len(w) : w[k] = c}

\* Joi.string().email()
IsEmail(w) ==
  /\ Count(w, " ") = 0
  /\ Count(w, "@") = 1
  /\ LET at == CHOOSE k \in Positions(w, "@") : TRUE IN
       /\ at > 1
       /\ \E d \in Positions(w, ".") : d > at + 1 /\ d < Len(w)

\* loginSchema
loginSchemaError(body) ==
  IF ~IsEmail(body.email) /\ body.password = Undefined
  THEN "\"email\" must be a valid email, \"password\" is required"
  ELSE IF ~IsEmail(body.email) THEN "\"email\" must be a valid email"
  ELSE IF body.password = Undefined THEN "\"password\" is required"
  ELSE ""

\* registerSchema: the errors of email and of password, joined by ', '
registerSchemaError(body) ==
  LET email == IF IsEmail(body.email) THEN "" ELSE "\"email\" must be a valid email"
      password ==
        IF body.password = Undefined THEN "\"password\" is required"
        ELSE IF Len(body.password) < 8
             THEN "\"password\" length must be at least 8 characters long"
        ELSE IF Len(body.password) > 128
             THEN "\"password\" length must be less than or equal to 128 characters long"
        ELSE ""
  IN IF email # "" /\ password # "" THEN email \o ", " \o password
     ELSE email \o password

\* the keys of updateMeSchema: { name } in part_002, { name, isActive } in part_003
updateMeKeys == IF ctlDef = 1 THEN {"name"} ELSE {"name", "isActive"}

\* updateMeSchema: at least one key
updateMeSchemaError(patch) ==
  IF patch.has \cap updateMeKeys = {} THEN "\"value\" must have at least 1 key" ELSE ""

\* patchSchema of adminUpdate: { name, role, isActive } with at least one key
patchSchemaError(patch) ==
  IF "role" \in patch.has /\ patch.role \notin Roles
  THEN "\"role\" must be one of [student, mentor, admin]"
  ELSE IF patch.has \cap {"name", "role", "isActive"} = {}
       THEN "\"value\" must have at least 1 key"
       ELSE ""

\* a validation that keeps the keys the schema does not know
StripUnknown_KeepAll(patch, keys) == patch

\* stripUnknown: the keys the schema knows
StripUnknown(patch, keys) == [patch EXCEPT !.has = @ \cap keys]

\* the inputs of the handlers: req.params.id and the bodies of the PATCH routes
ParamIds == {"u2", "u9"}
MePatches == {NoPatch, [NoPatch EXCEPT !.has = {"name"}, !.name = "Zed"]}
AdminPatches ==
  { NoPatch,
    [NoPatch EXCEPT !.has = {"role"}, !.role = "admin"],
    [NoPatch EXCEPT !.has = {"role"}, !.role = "root"],
    [NoPatch EXCEPT !.has = {"isActive"}, !.isActive = FALSE] }

(***************************************************************************)
(* The controller                                                          *)
(***************************************************************************)
RECURSIVE TrimStart(_)
TrimStart(w) == IF Len(w) > 0 /\ Head(w) = " " THEN TrimStart(Tail(w)) ELSE w
RECURSIVE TrimEnd(_)
TrimEnd(w) ==
  IF Len(w) > 0 /\ w[Len(w)] = " " THEN TrimEnd(SubSeq(w, 1, Len(w) - 1)) ELSE w
\* value.email.trim().toLowerCase()
NormaliseEmail(w) == ToLower(TrimEnd(TrimStart(w)))

\* the client keeps the tokens of a response
Keep(tokens) == issued \cup tokens

\* sanitize(u): u without the two secret fields
sanitize(u) == [f \in DOMAIN u \ {"passwordHash", "resetTokenHash"} |-> u[f]]

\* the body of a response that holds these documents
Json(status, docs) == [NoResponse EXCEPT !.status = status, !.docs = docs]

\* register answering with the whole document that create returned
registerBody_WholeUser(user) == user

\* the body of the 201 of register: { id: user._id }
registerBody(user) == [id |-> user._id]

\* POST /users/register, up to the answer of getByEmail
register(i) ==
  /\ Stage(reqs[i]) = "register"
  /\ reqs[i].await = ""
  /\ LET r == reqs[i]
         verr == registerSchemaError(r.body)
         existing == getByEmail(NormaliseEmail(r.body.email), FALSE)
     IN
     reqs' = [reqs EXCEPT ![i] =
       IF verr # ""
       THEN CallNextErr(r, "register", createError(400, verr))
       ELSE IF existing # {}
            THEN CallNextErr(r, "register", createError(409, "Email already in use"))
            ELSE [r EXCEPT !.await = "create"]]
  /\ UNCHANGED <<build, mongo, now, users, issued, served>>

\* POST /users/register, from argon2.hash on: userService.create and the answer
registerCreate(i) ==
  /\ Stage(reqs[i]) = "register"
  /\ reqs[i].await = "create"
  /\ LET r == reqs[i]
         email == NormaliseEmail(r.body.email)
         name == IF r.body.name = Undefined THEN "" ELSE r.body.name
         e == createThrown(email)
         store == create(email, name, argon2Hash(r.body.password, NewId), "student")
         user == Lean(store, NewId, SelectFalse)
     IN
     IF e # NoError
     THEN /\ reqs' = [reqs EXCEPT ![i] = CallNextErr(r, "register", e)]
          /\ UNCHANGED users
     ELSE /\ users' = store
          /\ reqs' = [reqs EXCEPT ![i] =
                        Respond(r, "register", Json(201, {registerBody(user)}))]
  /\ UNCHANGED <<build, mongo, now, issued, served>>

\* login telling a client that the email has no account
loginThrown_UnknownEmail(found, password) ==
  IF found = {} THEN createError(404, "User not found")
  ELSE LET user == CHOOSE d \in found : TRUE IN
       IF "passwordHash" \notin DOMAIN user
       THEN createError(401, "Invalid credentials")
       ELSE IF argon2VerifyThrown(user.passwordHash) # NoError
            THEN argon2VerifyThrown(user.passwordHash)
       ELSE IF ~argon2Verify(user.passwordHash, password)
            THEN createError(401, "Invalid credentials")
       ELSE NoError

\* login that does not compare the password with the digest
loginThrown_NoVerify(found, password) ==
  IF found = {} THEN createError(401, "Invalid credentials")
  ELSE LET user == CHOOSE d \in found : TRUE IN
       IF "passwordHash" \notin DOMAIN user
       THEN createError(401, "Invalid credentials")
       ELSE NoError

\* login: what the lines after getByEmail throw for the document(s) found
\* (NoError when the password is verified)
loginThrown(found, password) ==
  IF found = {} THEN createError(401, "Invalid credentials")
  ELSE LET user == CHOOSE d \in found : TRUE IN
       IF "passwordHash" \notin DOMAIN user
       THEN createError(401, "Invalid credentials")
       ELSE IF argon2VerifyThrown(user.passwordHash) # NoError
            THEN argon2VerifyThrown(user.passwordHash)
       ELSE IF ~argon2Verify(user.passwordHash, password)
            THEN createError(401, "Invalid credentials")
       ELSE NoError

\* POST /users/login, up to the call of updateById
login(i) ==
  /\ Stage(reqs[i]) = "login"
  /\ reqs[i].await = ""
  /\ LET r == reqs[i]
         verr == loginSchemaError(r.body)
         found == getByEmail(NormaliseEmail(r.body.email), ctlDef = 1)
         e == loginThrown(found, r.body.password)
     IN
     reqs' = [reqs EXCEPT ![i] =
       IF verr # ""
       THEN CallNextErr(r, "login", createError(400, verr))
       ELSE IF e # NoError
            THEN CallNextErr(r, "login", e)
            ELSE [r EXCEPT !.await = "updateById", !.found = found]]
  /\ UNCHANGED <<build, mongo, now, users, issued, served>>

\* the patch login writes after a verified password
loginPatch(clock) ==
  [NoPatch EXCEPT !.has = {"lastLoginAt", "failedLoginCount"},
                  !.lastLoginAt = clock, !.failedLoginCount = 0]

\* POST /users/login, from updateById on: the bookkeeping, the tokens, the answer
loginUpdate(i) ==
  /\ Stage(reqs[i]) = "login"
  /\ reqs[i].await = "updateById"
  /\ LET r == reqs[i]
         user == CHOOSE d \in r.found : TRUE
         access == signAccess(user._id, user.role, now)
         refresh == signRefresh(user._id, now)
     IN
     /\ users' = updateById(user._id, loginPatch(now))
     /\ reqs' = [reqs EXCEPT ![i] =
                   Respond(r, "login",
                           [NoResponse EXCEPT !.status = 200,
                                              !.accessToken = access,
                                              !.refreshToken = refresh])]
     /\ issued' = Keep({access, refresh})
  /\ UNCHANGED <<build, mongo, now, served>>

\* refresh without the check of the class marker
refreshThrown_NoTypCheck(r, secret, clock) ==
  LET token == r.body.refreshToken IN
  IF Falsy(token) THEN createError(400, "Missing refresh token")
  ELSE IF ~jwtVerify(token, secret, clock)
       THEN LibraryError(jwtVerifyError(token, secret, clock))
  ELSE IF ~HasId(token.sub) THEN createError(401, "Invalid token")
  ELSE NoError

\* POST /users/refresh: what the try block throws (NoError when it answers)
refreshThrown(r, secret, clock) ==
  LET token == r.body.refreshToken IN
  IF Falsy(token) THEN createError(400, "Missing refresh token")
  ELSE IF ~jwtVerify(token, secret, clock)
       THEN LibraryError(jwtVerifyError(token, secret, clock))
  ELSE IF token.typ # "refresh" THEN createError(401, "Invalid token")
  ELSE IF ~HasId(token.sub) THEN createError(401, "Invalid token")
  ELSE NoError

\* a catch block that hands the caught error on
refreshCatch_Rethrow(e) == e

\* the catch block of refresh
refreshCatch(e) == createError(401, "Invalid token")

\* refresh answering with a new refresh token as well
refreshBody_Rotating(id, role, clock) ==
  [NoResponse EXCEPT !.status = 200,
                     !.accessToken = signAccess(id, role, clock),
                     !.refreshToken = signRefresh(id, clock)]

\* refresh signing the role the account was created with
refreshBody_FirstRole(id, role, clock) ==
  [NoResponse EXCEPT !.status = 200,
                     !.accessToken = signAccess(id, SeedUsers("mentor")[id].role, clock)]

\* the body of the 200 of refresh: { accessToken: access }
refreshBody(id, role, clock) ==
  [NoResponse EXCEPT !.status = 200, !.accessToken = signAccess(id, role, clock)]

refresh(i) ==
  /\ Stage(reqs[i]) = "refresh"
  /\ LET r == reqs[i]
         e == refreshThrown(r, env.jwtRefreshSecret, now)
     IN
     IF e # NoError
     THEN /\ reqs' = [reqs EXCEPT ![i] = CallNextErr(r, "refresh", refreshCatch(e))]
          /\ UNCHANGED issued
     ELSE LET id == r.body.refreshToken.sub
              body == refreshBody(id, users[id].role, now)
          IN
          /\ reqs' = [reqs EXCEPT ![i] = Respond(r, "refresh", body)]
          /\ issued' = Keep({body.accessToken, body.refreshToken} \ {NoToken})
  /\ UNCHANGED <<build, mongo, now, users, served>>

\* the check of req.user at the head of me and updateMe: part_002 throws a
\* 401, part_003 has no check and reads req.user.sub
noCallerThrown(r) ==
  IF ctlDef = 1
  THEN IF ~r.user.set \/ r.user.sub = Undefined
       THEN createError(401, "Unauthorised")
       ELSE NoError
  ELSE IF ~r.user.set
       THEN LibraryError("Cannot read properties of undefined (reading 'sub')")
       ELSE NoError

\* GET /users/me
me(i) ==
  /\ Stage(reqs[i]) = "me"
  /\ LET r == reqs[i] IN
     reqs' = [reqs EXCEPT ![i] =
       IF noCallerThrown(r) # NoError
       THEN CallNextErr(r, "me", noCallerThrown(r))
       ELSE IF ~HasId(r.user.sub)
            THEN CallNextErr(r, "me", createError(404, "User not found"))
            ELSE Respond(r, "me", Json(200, {sanitize(Lean(users, r.user.sub, {}))}))]
  /\ UNCHANGED <<build, mongo, now, users, issued, served>>

\* PATCH /users/me with this body
updateMeWith(i, patch) ==
  /\ Stage(reqs[i]) = "updateMe"
  /\ LET r == [reqs[i] EXCEPT !.patch = patch]
         verr == updateMeSchemaError(r.patch)
         store == updateById(r.user.sub, StripUnknown(r.patch, updateMeKeys))
     IN
     IF noCallerThrown(r) # NoError
     THEN /\ reqs' = [reqs EXCEPT ![i] = CallNextErr(r, "updateMe", noCallerThrown(r))]
          /\ UNCHANGED users
     ELSE IF verr # ""
     THEN /\ reqs' = [reqs EXCEPT ![i] =
                        CallNextErr(r, "updateMe", createError(400, verr))]
          /\ UNCHANGED users
     ELSE /\ users' = store
          /\ reqs' = [reqs EXCEPT ![i] =
                        Respond(r, "updateMe",
                                Json(200, IF HasId(r.user.sub)
                                          THEN {sanitize(Lean(store, r.user.sub, {}))}
                                          ELSE {}))]
  /\ UNCHANGED <<build, mongo, now, issued, served>>

\* PATCH /users/me
updateMe(i) == \E patch \in MePatches : updateMeWith(i, patch)

\* GET /users
list(i) ==
  /\ Stage(reqs[i]) = "list"
  /\ reqs' = [reqs EXCEPT ![i] =
                Respond(reqs[i], "list",
                        Json(200, {sanitize(Lean(users, id, {})) : id \in DOMAIN users}))]
  /\ UNCHANGED <<build, mongo, now, users, issued, served>>

\* GET /users/:id with this id
getByIdWith(i, id) ==
  /\ Stage(reqs[i]) = "getById"
  /\ LET r == [reqs[i] EXCEPT !.id = id] IN
     reqs' = [reqs EXCEPT ![i] =
       IF ~HasId(r.id)
       THEN CallNextErr(r, "getById", createError(404, "User not found"))
       ELSE Respond(r, "getById", Json(200, {sanitize(Lean(users, r.id, {}))}))]
  /\ UNCHANGED <<build, mongo, now, users, issued, served>>

\* GET /users/:id
getById(i) == \E id \in ParamIds : getByIdWith(i, id)

\* PATCH /users/:id writing the body before it is validated
adminUpdateWith_WriteFirst(i, id, patch) ==
  /\ Stage(reqs[i]) = "adminUpdate"
  /\ LET r == [reqs[i] EXCEPT !.id = id, !.patch = patch]
         verr == patchSchemaError(r.patch)
         store == updateById(r.id, StripUnknown(r.patch, {"name", "role", "isActive"}))
     IN
     /\ users' = store
     /\ reqs' = [reqs EXCEPT ![i] =
          IF verr # ""
          THEN CallNextErr(r, "adminUpdate", createError(400, verr))
          ELSE IF ~HasId(r.id)
          THEN CallNextErr(r, "adminUpdate", createError(404, "User not found"))
          ELSE Respond(r, "adminUpdate", Json(200, {sanitize(Lean(store, r.id, {}))}))]
  /\ UNCHANGED <<build, mongo, now, issued, served>>

\* PATCH /users/:id with this id and this body
adminUpdateWith(i, id, patch) ==
  /\ Stage(reqs[i]) = "adminUpdate"
  /\ LET r == [reqs[i] EXCEPT !.id = id, !.patch = patch]
         verr == patchSchemaError(r.patch)
         store == updateById(r.id, StripUnknown(r.patch, {"name", "role", "isActive"}))
     IN
     IF verr # ""
     THEN /\ reqs' = [reqs EXCEPT ![i] =
                        CallNextErr(r, "adminUpdate", createError(400, verr))]
          /\ UNCHANGED users
     ELSE IF ~HasId(r.id)
     THEN /\ reqs' = [reqs EXCEPT ![i] =
                        CallNextErr(r, "adminUpdate", createError(404, "User not found"))]
          /\ UNCHANGED users
     ELSE /\ users' = store
          /\ reqs' = [reqs EXCEPT ![i] =
                        Respond(r, "adminUpdate",
                                Json(200, {sanitize(Lean(store, r.id, {}))}))]
  /\ UNCHANGED <<build, mongo, now, issued, served>>

\* PATCH /users/:id
adminUpdate(i) ==
  \E id \in ParamIds, patch \in AdminPatches : adminUpdateWith(i, id, patch)

(***************************************************************************)
(* Clients                                                                 *)
(***************************************************************************)
\* what a client can make of a token without knowing the server's secrets:
\* a changed payload under the old signature, or a signature of its own
HeaderForgeries(t) ==
  { [t EXCEPT !.role = "admin"],
    [t EXCEPT !.exp = t.exp + 1],
    jwtSign(t.sub, "admin", t.typ, "k0", AccessTtl, t.iat) }

BodyForgeries(t) ==
  { [t EXCEPT !.typ = "refresh"],
    [t EXCEPT !.exp = t.exp + 1] }

\* the Authorization headers of a well-behaved client
PlainHeaders == {NoHeader} \cup {[scheme |-> Bearer, rest |-> <<t>>] : t \in issued}

\* all the Authorization headers a client sends
Headers ==
  PlainHeaders
    \cup {[scheme |-> Bearer, rest |-> <<>>]}
    \cup {[scheme |-> w, rest |-> <<t>>] : w \in SchemeWords, t \in issued}
    \cup {[scheme |-> Bearer, rest |-> <<t>>] :
            t \in UNION {HeaderForgeries(u) : u \in issued} \cup {Garbage, EmptyString}}
    \cup {[scheme |-> Bearer, rest |-> <<EmptyString, t>>] : t \in issued}

\* the refreshToken field of the bodies a client sends
RefreshBodies ==
  issued \cup UNION {BodyForgeries(t) : t \in issued} \cup {Garbage, EmptyString, NoToken}

\* the bodies of the login requests a client sends
LoginBodies ==
  { [NoBody EXCEPT !.email = EmailA, !.password = "pw1"],
    [NoBody EXCEPT !.email = EmailA, !.password = "pw2"],
    [NoBody EXCEPT !.email = EmailA],
    [NoBody EXCEPT !.email = <<"B", "@", "x", ".", "c">>, !.password = "pw2"],
    [NoBody EXCEPT !.email = <<"c", "@", "x", ".", "c">>, !.password = "pw1"],
    [NoBody EXCEPT !.email = <<"a", "@">>, !.password = "pw1"],
    [NoBody EXCEPT !.email = <<"a", "@">>] }

NewReq(route, hdr, body) ==
  [IdleReq EXCEPT !.st = "run", !.route = route, !.hdr = hdr, !.body = body, !.pc = 1]

\* a request arrives on a free connection; req.params and the body of the
\* PATCH routes are read by the handler only, and are drawn there
Receive(i) ==
  /\ reqs[i].st \in {"idle", "done"}
  /\ served < MaxRequests
  /\ served' = served + 1
  /\ \/ \E body \in LoginBodies :
          reqs' = [reqs EXCEPT ![i] = NewReq("login", NoHeader, body)]
     \/ \E t \in RefreshBodies :
          reqs' = [reqs EXCEPT ![i] =
                     NewReq("refresh", NoHeader, [NoBody EXCEPT !.refreshToken = t])]
     \/ \E h \in PlainHeaders, route \in ProtectedHandlers :
          reqs' = [reqs EXCEPT ![i] = NewReq(route, h, NoBody)]
     \/ \E h \in Headers, route \in {"me", "list"} :
          reqs' = [reqs EXCEPT ![i] = NewReq(route, h, NoBody)]
  /\ UNCHANGED <<build, mongo, now, users, issued>>

\* time passes
Tick ==
  /\ now < MaxTime
  /\ now' = now + 1
  /\ UNCHANGED <<build, mongo, users, issued, reqs, served>>

(***************************************************************************)
(* The Mongo connection helper (src/unnamed/part_000)                      *)
(***************************************************************************)
\* number of attempts before failing
RETRIES == 10
\* delay between attempts, in milliseconds
DELAY_MS == 1000

\* env.mongoUri: process.env.MONGO_URI, which may be unset outside production
MongoUris == {Undefined, "mongodb://db"}

\* reasons mongoose.connect rejects with when the server cannot be selected
ConnectErrors == {"ECONNREFUSED", "Server selection timed out"}
\* mongoose.connect(undefined): openUri throws for a uri that is not a
\* string, before it tries to reach a server ("" when the uri is a string)
openUriThrown(uri) ==
  IF uri = Undefined THEN "The uri parameter to openUri() must be a string"
  ELSE ""

\* the answers of one attempt to connect: mongoose.connect(uri) resolves, or
\* rejects when no server was selected in time
mongooseConnect == {"ok"} \cup ConnectErrors

\* start() before it has called connectMongo(uri): attempt is the loop
\* variable, log the answers of the attempts to connect so far,
\* waited the time spent in setTimeout, thrown the error connectMongo threw
NotStarted(uri) ==
  [pc |-> "start", uri |-> uri, attempt |-> 0, log |-> <<>>,
   waited |-> 0, thrown |-> ""]

\* the service once start() has connected and server.listen was called
Listening ==
  [NotStarted("mongodb://db") EXCEPT !.pc = "listening", !.attempt = 1,
                                     !.log = <<"ok">>]

\* connectMongo (first definition) up to its first await
connectMongoCall1(m) ==
  IF m.uri = Undefined
    THEN [m EXCEPT !.pc = "thrown", !.thrown = "Missing MongoDB URI"]
    ELSE [m EXCEPT !.pc = "connect", !.attempt = 1]

\* connectMongo (second definition) up to its await
connectMongoCall2(m) ==
  IF openUriThrown(m.uri) # ""
    THEN [m EXCEPT !.pc = "thrown", !.thrown = openUriThrown(m.uri)]
    ELSE [m EXCEPT !.pc = "connect", !.attempt = 1]

\* a retry loop that gives up one attempt late
connectMongoSettle1_OneMore(m, answer) ==
  LET n == [m EXCEPT !.log = Append(m.log, answer)] IN
  IF answer = "ok" THEN [n EXCEPT !.pc = "returned"]
  ELSE IF m.attempt > RETRIES THEN [n EXCEPT !.pc = "thrown", !.thrown = answer]
  ELSE [n EXCEPT !.pc = "delay"]

\* connectMongo (first definition) when mongoose.connect has answered
connectMongoSettle1(m, answer) ==
  LET n == [m EXCEPT !.log = Append(m.log, answer)] IN
  IF answer = "ok" THEN [n EXCEPT !.pc = "returned"]
  ELSE IF m.attempt = RETRIES THEN [n EXCEPT !.pc = "thrown", !.thrown = answer]
  ELSE [n EXCEPT !.pc = "delay"]

\* connectMongo (second definition) when mongoose.connect has answered
connectMongoSettle2(m, answer) ==
  LET n == [m EXCEPT !.log = Append(m.log, answer)] IN
  IF answer = "ok" THEN [n EXCEPT !.pc = "returned"]
  ELSE [n EXCEPT !.pc = "thrown", !.thrown = answer]

\* start() calls connectMongo(env.mongoUri)
start ==
  /\ mongo.pc = "start"
  /\ mongo' = IF dbDef = 1 THEN connectMongoCall1(mongo) ELSE connectMongoCall2(mongo)
  /\ UNCHANGED <<build, now, users, issued, reqs, served>>

\* the awaited mongoose.connect resolves or rejects
connectMongo ==
  /\ mongo.pc = "connect"
  /\ \E answer \in mongooseConnect :
       mongo' = IF dbDef = 1 THEN connectMongoSettle1(mongo, answer)
                             ELSE connectMongoSettle2(mongo, answer)
  /\ UNCHANGED <<build, now, users, issued, reqs, served>>

\* the timer of setTimeout(r, DELAY_MS) fires
\* and the loop goes to its next attempt
retryDelay ==
  /\ mongo.pc = "delay"
  /\ mongo' = [mongo EXCEPT !.pc = "connect", !.attempt = @ + 1,
                            !.waited = @ + DELAY_MS]
  /\ UNCHANGED <<build, now, users, issued, reqs, served>>

\* start() after connectMongo: server.listen, or process.exit(1) in catch
started ==
  /\ mongo.pc \in {"returned", "thrown"}
  /\ mongo' = [mongo EXCEPT !.pc = IF mongo.pc = "returned" THEN "listening"
                                                            ELSE "exit"]
  /\ UNCHANGED <<build, now, users, issued, reqs, served>>

InitConnect ==
  /\ env \in [jwtAccessSecret : {"k1"}, jwtRefreshSecret : {"k2"}]
  /\ mwDef = 1
  /\ ctlDef = 1
  /\ svcDef = 2
  /\ dbDef \in {1, 2}
  /\ mongo \in {NotStarted(uri) : uri \in MongoUris}
  /\ now = 0
  /\ users = SeedUsers("mentor")
  /\ issued = {}
  /\ reqs = [i \in ReqIds |-> IdleReq]
  /\ served = 0

NextConnect ==
  \/ start
  \/ connectMongo
  \/ retryDelay
  \/ started

SpecConnect == InitConnect /\ [][NextConnect]_vars

\* every timer fires and every call of mongoose.connect is answered (within
\* serverSelectionTimeoutMS at the latest)
SpecConnectFair == SpecConnect /\ WF_vars(NextConnect)

(***************************************************************************)
(* The system                                                              *)
(***************************************************************************)
Init ==
  /\ env \in [jwtAccessSecret : {"k1"}, jwtRefreshSecret : Secrets]
  /\ mwDef \in {1, 2}
  /\ ctlDef \in {1, 2}
  /\ svcDef \in {1, 2}
  /\ dbDef = 1
  /\ mongo = Listening
  /\ now = 0
  /\ users \in {SeedUsers(role) : role \in {"student", "mentor"}}
  /\ issued = {}
  /\ reqs = [i \in ReqIds |-> IdleReq]
  /\ served = 0

Next ==
  \/ \E i \in ReqIds : Receive(i)
  \/ \E i \in ReqIds : requireAuth(i)
  \/ \E i \in ReqIds : requireRole(i)
  \/ \E i \in ReqIds : login(i)
  \/ \E i \in ReqIds : loginUpdate(i)
  \/ \E i \in ReqIds : refresh(i)
  \/ \E i \in ReqIds : me(i)
  \/ \E i \in ReqIds : updateMe(i)
  \/ \E i \in ReqIds : list(i)
  \/ \E i \in ReqIds : getById(i)
  \/ \E i \in ReqIds : adminUpdate(i)
  \/ \E i \in ReqIds : errorHandler(i)
  \/ Tick

Spec == Init /\ [][Next]_vars

(***************************************************************************)
(* The role guard on its own: roleGuard(req, res, next) is called on a     *)
(* request whose req.user is any value a caller can have left there.       *)
(***************************************************************************)
GuardUsers ==
  {NoUser} \cup
  {[NoUser EXCEPT !.set = TRUE, !.sub = sub, !.role = role] :
     sub \in {"u1", "u2"}, role \in Roles \cup {Undefined}}

InitGuard ==
  /\ env \in [jwtAccessSecret : {"k1"}, jwtRefreshSecret : Secrets]
  /\ mwDef \in {1, 2}
  /\ ctlDef \in {1, 2}
  /\ svcDef \in {1, 2}
  /\ dbDef = 1
  /\ mongo = Listening
  /\ now = 0
  /\ users \in {SeedUsers(role) : role \in {"student", "mentor"}}
  /\ issued = {}
  /\ served = 1
  /\ reqs \in [ReqIds ->
                {[NewReq(route, NoHeader, NoBody) EXCEPT !.user = u, !.pc = 2] :
                   route \in AdminRoutes, u \in GuardUsers}]

NextGuard ==
  \/ \E i \in ReqIds : requireRole(i)
  \/ \E i \in ReqIds : errorHandler(i)

SpecGuard == InitGuard /\ [][NextGuard]_vars

(***************************************************************************)
(* Accounts: POST /users/register and POST /users/login on two             *)
(* connections, so that two requests can be in flight at once.  The store  *)
(* also holds an account that was written without register.                *)
(***************************************************************************)
Conns == {1, 2}

\* a request arrives on a free connection
Arrive(i, requests) ==
  /\ reqs[i].st \in {"idle", "done"}
  /\ served < MaxRequests
  /\ served' = served + 1
  /\ \E q \in requests : reqs' = [reqs EXCEPT ![i] = q]
  /\ UNCHANGED <<build, mongo, now, users, issued>>

\* the bodies of the register requests a client sends: a new email in two
\* spellings, the email of an account, a password that is too short
RegisterBodies ==
  { [NoBody EXCEPT !.email = EmailC, !.password = "Passw0rd1", !.name = "Cy"],
    [NoBody EXCEPT !.email = <<"C", "@", "x", ".", "c">>, !.password = "Passw0rd1"],
    [NoBody EXCEPT !.email = <<"A", "@", "x", ".", "c">>, !.password = "Passw0rd1"],
    [NoBody EXCEPT !.email = EmailC, !.password = "short"] }

\* the bodies of the login requests: the registered email with its password
\* and with another one, an email without an account, the account whose
\* passwordHash is 'hash', the second seeded account with a wrong password
AccountLoginBodies ==
  { [NoBody EXCEPT !.email = EmailC, !.password = "Passw0rd1"],
    [NoBody EXCEPT !.email = EmailC, !.password = "pw1"],
    [NoBody EXCEPT !.email = <<"e", "@", "x", ".", "c">>, !.password = "pw1"],
    [NoBody EXCEPT !.email = EmailT, !.password = "pw1"],
    [NoBody EXCEPT !.email = EmailB, !.password = "pw1"] }

ReceiveAccounts(i) ==
  Arrive(i, {NewReq("register", NoHeader, body) : body \in RegisterBodies}
              \cup {NewReq("login", NoHeader, body) : body \in AccountLoginBodies})

InitAccounts ==
  /\ env \in [jwtAccessSecret : {"k1"}, jwtRefreshSecret : Secrets]
  /\ mwDef = 1
  /\ ctlDef \in {1, 2}
  /\ svcDef \in {1, 2}
  /\ dbDef = 1
  /\ mongo = Listening
  /\ now = 0
  /\ users = SeedUsers("mentor") @@ LegacyUsers
  /\ issued = {}
  /\ reqs = [i \in Conns |-> IdleReq]
  /\ served = 0

NextAccounts ==
  \/ \E i \in Conns : ReceiveAccounts(i)
  \/ \E i \in Conns : register(i)
  \/ \E i \in Conns : registerCreate(i)
  \/ \E i \in Conns : login(i)
  \/ \E i \in Conns : loginUpdate(i)
  \/ \E i \in Conns : errorHandler(i)

SpecAccounts == InitAccounts /\ [][NextAccounts]_vars

(***************************************************************************)
(* Sessions: clients that log in, register, refresh and call the protected *)
(* routes with the tokens they were given, on two connections, while an    *)
(* admin changes accounts.                                                 *)
(***************************************************************************)
\* tokens a client holds, by the field of the login response they came in
HeldAccess == {t \in issued : t.typ = Undefined}
HeldRefresh == {t \in issued : t.typ = "refresh"}

SessionLoginBodies ==
  { [NoBody EXCEPT !.email = EmailA, !.password = "pw1"],
    [NoBody EXCEPT !.email = EmailB, !.password = "pw2"] }

SessionRegisterBodies ==
  { [NoBody EXCEPT !.email = EmailC, !.password = "Passw0rd1", !.name = "Cy"] }

\* the body of the PATCH /users/:id an admin sends: all three fields
SessionPatch ==
  [NoPatch EXCEPT !.has = {"name", "role", "isActive"},
                  !.name = "Zed", !.role = "student", !.isActive = FALSE]
SessionIds == {"u1", "u2"}

ReceiveSessions(i) ==
  Arrive(i, {NewReq("login", NoHeader, body) : body \in SessionLoginBodies}
              \cup {NewReq("register", NoHeader, body) : body \in SessionRegisterBodies}
              \cup {NewReq("refresh", NoHeader, [NoBody EXCEPT !.refreshToken = t]) :
                      t \in HeldRefresh}
              \cup {NewReq(route, BearerHeader(t), NoBody) :
                      route \in ProtectedHandlers, t \in HeldAccess})

adminUpdateSessions(i) == \E id \in SessionIds : adminUpdateWith(i, id, SessionPatch)

InitSessions ==
  /\ env \in [jwtAccessSecret : {"k1"}, jwtRefreshSecret : {"k2"}]
  /\ mwDef \in {1, 2}
  /\ ctlDef \in {1, 2}
  /\ svcDef \in {1, 2}
  /\ dbDef = 1
  /\ mongo = Listening
  /\ now = 0
  /\ users = SeedUsers("mentor")
  /\ issued = {}
  /\ reqs = [i \in Conns |-> IdleReq]
  /\ served = 0

NextSessions ==
  \/ \E i \in Conns : ReceiveSessions(i)
  \/ \E i \in Conns : requireAuth(i)
  \/ \E i \in Conns : requireRole(i)
  \/ \E i \in Conns : register(i)
  \/ \E i \in Conns : registerCreate(i)
  \/ \E i \in Conns : login(i)
  \/ \E i \in Conns : loginUpdate(i)
  \/ \E i \in Conns : refresh(i)
  \/ \E i \in Conns : me(i)
  \/ \E i \in Conns : updateMe(i)
  \/ \E i \in Conns : list(i)
  \/ \E i \in Conns : getById(i)
  \/ \E i \in Conns : adminUpdateSessions(i)
  \/ \E i \in Conns : errorHandler(i)
  \/ Tick

SpecSessions == InitSessions /\ [][NextSessions]_vars

(***************************************************************************)
(* Refresh: clients that log in, refresh and change roles as an admin, on  *)
(* two connections.  One client still holds a refresh token of an account  *)
(* that is no longer in the store (removed in the database: no route       *)
(* deletes an account).                                                    *)
(***************************************************************************)
RemovedId == "u9"

ReceiveRefresh(i) ==
  Arrive(i, {NewReq("login", NoHeader, body) : body \in SessionLoginBodies}
              \cup {NewReq("refresh", NoHeader, [NoBody EXCEPT !.refreshToken = t]) :
                      t \in HeldRefresh}
              \cup {NewReq("adminUpdate", BearerHeader(t), NoBody) : t \in HeldAccess})

InitRefresh ==
  /\ env \in [jwtAccessSecret : {"k1"}, jwtRefreshSecret : {"k2"}]
  /\ mwDef \in {1, 2}
  /\ ctlDef \in {1, 2}
  /\ svcDef \in {1, 2}
  /\ dbDef = 1
  /\ mongo = Listening
  /\ now = 0
  /\ users = SeedUsers("mentor")
  /\ issued = {signRefresh(RemovedId, 0)}
  /\ reqs = [i \in Conns |-> IdleReq]
  /\ served = 0

NextRefresh ==
  \/ \E i \in Conns : ReceiveRefresh(i)
  \/ \E i \in Conns : requireAuth(i)
  \/ \E i \in Conns : requireRole(i)
  \/ \E i \in Conns : login(i)
  \/ \E i \in Conns : loginUpdate(i)
  \/ \E i \in Conns : refresh(i)
  \/ \E i \in Conns : adminUpdateSessions(i)
  \/ \E i \in Conns : errorHandler(i)
  \/ Tick

SpecRefresh == InitRefresh /\ [][NextRefresh]_vars

(***************************************************************************)
(* Escalation: a client that tries to get tokens and rights it should not  *)
(* have.  It registers (also with a taken email and with a short           *)
(* password), logs in (also with a wrong password and without one),        *)
(* refreshes with the tokens it was given and with what it can make of     *)
(* them, calls the protected routes with them, and sends PATCH /users/me   *)
(* and PATCH /users/:id with a role in the body.  The store may have no    *)
(* admin.                                                                  *)
(***************************************************************************)
\* the seeded accounts after the admin was made a student
NoAdminUsers ==
  [id \in DOMAIN SeedUsers("mentor") |->
     [SeedUsers("mentor")[id] EXCEPT !.role = IF @ = "admin" THEN "student" ELSE @]]

\* the body { name: 'Zed', role: 'admin' }
EscalationPatch ==
  [NoPatch EXCEPT !.has = {"name", "role"}, !.name = "Zed", !.role = "admin"]

\* the logins of the two accounts, one with the password of the other, one
\* without a password
EscalationLoginBodies ==
  SessionLoginBodies
    \cup {[NoBody EXCEPT !.email = EmailA, !.password = "pw2"],
          [NoBody EXCEPT !.email = EmailA]}

ReceiveEscalation(i) ==
  Arrive(i, {NewReq("register", NoHeader, body) : body \in RegisterBodies}
              \cup {NewReq("login", NoHeader, body) : body \in EscalationLoginBodies}
              \cup {NewReq("refresh", NoHeader, [NoBody EXCEPT !.refreshToken = t]) :
                      t \in RefreshBodies}
              \cup {NewReq(route, h, NoBody) :
                      route \in ProtectedHandlers, h \in PlainHeaders}
              \cup {NewReq("adminUpdate", BearerHeader(t), NoBody) :
                      t \in UNION {HeaderForgeries(u) : u \in issued}})

updateMeEscalation(i) ==
  \E patch \in MePatches \cup {EscalationPatch} : updateMeWith(i, patch)

adminUpdateEscalation(i) ==
  \E id \in SessionIds \cup ParamIds, patch \in AdminPatches \cup {EscalationPatch} :
    adminUpdateWith(i, id, patch)

InitEscalation ==
  /\ env \in [jwtAccessSecret : {"k1"}, jwtRefreshSecret : Secrets]
  /\ mwDef \in {1, 2}
  /\ ctlDef \in {1, 2}
  /\ svcDef \in {1, 2}
  /\ dbDef = 1
  /\ mongo = Listening
  /\ now = 0
  /\ users \in {SeedUsers("mentor"), NoAdminUsers}
  /\ issued = {}
  /\ reqs = [i \in ReqIds |-> IdleReq]
  /\ served = 0

NextEscalation ==
  \/ \E i \in ReqIds : ReceiveEscalation(i)
  \/ \E i \in ReqIds : requireAuth(i)
  \/ \E i \in ReqIds : requireRole(i)
  \/ \E i \in ReqIds : register(i)
  \/ \E i \in ReqIds : registerCreate(i)
  \/ \E i \in ReqIds : login(i)
  \/ \E i \in ReqIds : loginUpdate(i)
  \/ \E i \in ReqIds : refresh(i)
  \/ \E i \in ReqIds : me(i)
  \/ \E i \in ReqIds : updateMeEscalation(i)
  \/ \E i \in ReqIds : list(i)
  \/ \E i \in ReqIds : getById(i)
  \/ \E i \in ReqIds : adminUpdateEscalation(i)
  \/ \E i \in ReqIds : errorHandler(i)

SpecEscalation == InitEscalation /\ [][NextEscalation]_vars

(***************************************************************************)
(* Vocabulary of the properties                                            *)
(***************************************************************************)
\* the callbacks of r's route that have run are exactly ran, in that order
Ran(r, stage) == \E k \in 1..Len(r.ran) : r.ran[k] = stage
RanSomeOf(r, stages) == \E k \in 1..Len(r.ran) : r.ran[k] \in stages
\* the tokens among the words of the Authorization header
HeaderTokens(r) == {r.hdr.rest[k] : k \in 1..Len(r.hdr.rest)}
\* t carries a valid signature of the server's access key
AccessSigned(t) ==
  /\ t.kind = "jwt"
  /\ t.sig = Hmac(env.jwtAccessSecret, t.sub, t.role, t.typ, t.iat, t.exp)
\* tokens the service has handed out, by the helper that made them
IssuedAccess == {t \in issued : t.role \in Roles /\ t = signAccess(t.sub, t.role, t.iat)}
IssuedRefresh == {t \in issued : t = signRefresh(t.sub, t.iat)}
\* the outward result of a request
Answered(r, status, message) ==
  /\ r.st = "done"
  /\ r.res = [NoResponse EXCEPT !.status = status, !.message = message]
\* the request is on the error path with this error, or answered with it
Failed(r, status, message) ==
  \/ r.st = "error" /\ r.err = createError(status, message)
  \/ Answered(r, status, message)

(***************************************************************************)
(* C1  An admin-only route (GET /users, GET /users/:id, PATCH /users/:id)  *)
(* runs its handler only for a request that carried a token signed with    *)
(* the access secret, unexpired when requireAuth ran, whose role claim is  *)
(* admin; the callbacks run in the order requireAuth, requireRole,         *)
(* handler.                                                                *)
(***************************************************************************)
C1_Order(r) ==
  /\ Len(r.ran) <= Len(Router[r.route])
  /\ r.ran = SubSeq(Router[r.route], 1, Len(r.ran))

C1_AdminOnly(r) ==
  (RanSomeOf(r, AdminHandlers) \/ Stage(r) \in AdminHandlers) =>
     /\ r.user.set
     /\ r.user.role = "admin"
     /\ \E t \in HeaderTokens(r) : AccessSigned(t) /\ t.role = "admin"

C1_AuthStep(i) ==
  (Stage(reqs[i]) = "requireAuth" /\ reqs'[i].st = "run" /\ reqs'[i].pc = 2) =>
     \E t \in HeaderTokens(reqs[i]) : jwtVerify(t, env.jwtAccessSecret, now)

C1_AdminHandlerNeedsAdminToken ==
  [][\A i \in ReqIds :
       /\ C1_AuthStep(i)
       /\ reqs'[i].route \in AdminRoutes =>
            C1_Order(reqs'[i]) /\ C1_AdminOnly(reqs'[i])]_vars

C1_Witness ==
  \E i \in ReqIds :
    /\ reqs[i].st = "done"
    /\ reqs[i].ran = <<"requireAuth", "requireRole", "adminUpdate">>
    /\ reqs[i].res.status = 200

(***************************************************************************)
(* C2  When requireAuth fails (no header, a scheme that is not Bearer, a   *)
(* malformed token, a bad signature, an expired token) req.user stays      *)
(* unset, the request continues on the error path with a 401 only, and no  *)
(* protected handler runs for it.                                          *)
(***************************************************************************)
C2_NoValidToken(r) ==
  \A t \in HeaderTokens(r) : ~jwtVerify(t, env.jwtAccessSecret, now)

C2_FailStep(i) ==
  (/\ Stage(reqs[i]) = "requireAuth"
   /\ reqs'[i] # reqs[i]
   /\ C2_NoValidToken(reqs[i]) \/ reqs'[i].st # "run") =>
     /\ reqs'[i].st = "error"
     /\ reqs'[i].err.status = 401
     /\ reqs'[i].user = NoUser
     /\ reqs'[i].ran = <<"requireAuth">>
     /\ reqs'[i].res = NoResponse

C2_AfterFail(r) ==
  (r.route \in ProtectedHandlers /\ r.user = NoUser) =>
     /\ ~RanSomeOf(r, ProtectedHandlers)
     /\ Stage(r) \notin ProtectedHandlers
     /\ r.st = "done" => r.res.status = 401

C2_AuthFailureAttachesNothing ==
  [][\A i \in ReqIds : C2_FailStep(i) /\ C2_AfterFail(reqs'[i])]_vars

\* an expired token with a good signature: answered 401, nothing attached
C2_Witness ==
  \E i \in ReqIds :
    /\ reqs[i].route \in ProtectedHandlers
    /\ reqs[i].st = "done"
    /\ reqs[i].res.status = 401
    /\ reqs[i].user = NoUser
    /\ \E t \in IssuedAccess : reqs[i].hdr = BearerHeader(t) /\ now >= t.exp

(***************************************************************************)
(* C3  A token made by signAccess(subject, {role}), for any role of        *)
(* student, mentor and admin, and sent as "Bearer <token>" before it       *)
(* expires, passes requireAuth, which attaches the subject and the role    *)
(* the token was issued with.                                              *)
(***************************************************************************)
C3_AccessRoundTrip ==
  \A i \in ReqIds : \A t \in IssuedAccess :
    (/\ reqs[i].route \in ProtectedHandlers
     /\ Ran(reqs[i], "requireAuth")
     /\ reqs[i].hdr = BearerHeader(t)
     /\ now < t.exp) =>
       /\ reqs[i].user.set
       /\ reqs[i].user.sub = t.sub
       /\ reqs[i].user.role = t.role
       /\ ~Failed(reqs[i], 401, "Unauthorised")

C3_Witness ==
  \E i \in ReqIds : \E t \in IssuedAccess :
    /\ reqs[i].route \in ProtectedHandlers
    /\ Ran(reqs[i], "requireAuth")
    /\ reqs[i].hdr = BearerHeader(t)
    /\ now < t.exp
    /\ t.role = "mentor"
    /\ reqs[i].user.role = "mentor"

(***************************************************************************)
(* C4  A token made by signRefresh(subject) verifies as a refresh token    *)
(* before it expires: its signature is the one of the refresh secret, its  *)
(* claim holds the subject and typ = 'refresh' and no role, and            *)
(* POST /users/refresh accepts it.                                         *)
(***************************************************************************)
C4_LoginRefreshToken(r) ==
  (r.route = "login" /\ r.st = "done" /\ r.res.status = 200) =>
     LET t == r.res.refreshToken IN
       /\ t \in IssuedRefresh
       /\ t.sub \in DOMAIN users
       /\ users[t.sub].email = NormaliseEmail(r.body.email)

C4_RefreshRoundTrip ==
  /\ \A i \in ReqIds : C4_LoginRefreshToken(reqs[i])
  /\ \A t \in IssuedRefresh :
       /\ t.typ = "refresh"
       /\ t.role = Undefined
       /\ t.sub # Undefined
       /\ now < t.exp => jwtVerify(t, env.jwtRefreshSecret, now)
       /\ \A i \in ReqIds :
            (/\ reqs[i].route = "refresh"
             /\ reqs[i].body.refreshToken = t
             /\ reqs[i].st \in {"error", "done"}
             /\ now < t.exp) =>
               /\ reqs[i].st = "done"
               /\ reqs[i].res.status = 200
               /\ reqs[i].res.accessToken.sub = t.sub

C4_Witness ==
  \E i \in ReqIds : \E t \in IssuedRefresh :
    /\ reqs[i].route = "refresh"
    /\ reqs[i].body.refreshToken = t
    /\ reqs[i].st = "done"
    /\ reqs[i].res.status = 200
    /\ now < t.exp

(***************************************************************************)
(* C5  A refresh token is never accepted as an access credential: for any  *)
(* configuration of the two secrets, the same value for both included,     *)
(* requireAuth answers a token made by signRefresh with 401 and attaches   *)
(* no identity.                                                            *)
(***************************************************************************)
C5_RefreshTokenIsNoAccessCredential ==
  \A i \in ReqIds :
    (/\ reqs[i].route \in ProtectedHandlers
     /\ Ran(reqs[i], "requireAuth")
     /\ HeaderTokens(reqs[i]) \cap IssuedRefresh # {}) =>
       /\ reqs[i].user = NoUser
       /\ Failed(reqs[i], 401, "Unauthorised")

(***************************************************************************)
(* C6  An access token, as login and refresh issue them, sent as           *)
(* refreshToken to POST /users/refresh is answered 401 'Invalid token'     *)
(* whatever the two secrets are, and the answer holds no access token.     *)
(***************************************************************************)
C6_AccessTokenIsNoRefreshToken ==
  \A i \in ReqIds :
    (/\ reqs[i].route = "refresh"
     /\ reqs[i].body.refreshToken \in IssuedAccess
     /\ reqs[i].st \in {"error", "done"}) =>
       /\ Failed(reqs[i], 401, "Invalid token")
       /\ reqs[i].res.accessToken = NoToken

\* both classes signed with the same secret, and the access token not expired:
\* only the class marker stands between the token and a new access token
C6_Witness ==
  \E i \in ReqIds :
    /\ env.jwtAccessSecret = env.jwtRefreshSecret
    /\ reqs[i].route = "refresh"
    /\ reqs[i].body.refreshToken \in IssuedAccess
    /\ now < reqs[i].body.refreshToken.exp
    /\ Answered(reqs[i], 401, "Invalid token")

(***************************************************************************)
(* C7  Verification fails in one way only.  requireAuth gives the same     *)
(* 401 'Unauthorised' for a missing header, another scheme, a tampered     *)
(* signature, an expired token and a malformed token; POST /users/refresh  *)
(* gives the same 401 'Invalid token' for a tampered, an expired, a        *)
(* wrong-class and a malformed token.                                      *)
(***************************************************************************)
C7_Tampered(t, secret) ==
  t.kind = "jwt" /\ t.sig # Hmac(secret, t.sub, t.role, t.typ, t.iat, t.exp)
C7_Expired(t, secret) ==
  /\ t.kind = "jwt"
  /\ t.sig = Hmac(secret, t.sub, t.role, t.typ, t.iat, t.exp)
  /\ now >= t.exp

C7_AuthFailureCause(r) ==
  \/ r.hdr = NoHeader
  \/ ToLower(r.hdr.scheme) # ToLower(Bearer)
  \/ /\ Len(r.hdr.rest) = 1
     /\ \/ r.hdr.rest[1] = Garbage
        \/ C7_Tampered(r.hdr.rest[1], env.jwtAccessSecret)
        \/ C7_Expired(r.hdr.rest[1], env.jwtAccessSecret)

C7_RefreshFailureCause(r) ==
  LET t == r.body.refreshToken IN
    \/ t = Garbage
    \/ C7_Tampered(t, env.jwtRefreshSecret)
    \/ C7_Expired(t, env.jwtRefreshSecret)
    \/ t.kind = "jwt" /\ t.typ # "refresh"

C7_Step(i) ==
  /\ (/\ Stage(reqs[i]) = "requireAuth"
      /\ reqs'[i] # reqs[i]
      /\ C7_AuthFailureCause(reqs[i])) =>
        /\ reqs'[i].st = "error"
        /\ reqs'[i].err = createError(401, "Unauthorised")
  /\ (/\ Stage(reqs[i]) = "refresh"
      /\ reqs'[i] # reqs[i]
      /\ C7_RefreshFailureCause(reqs[i])) =>
        /\ reqs'[i].st = "error"
        /\ reqs'[i].err = createError(401, "Invalid token")

C7_Response(r) ==
  /\ (r.route \in ProtectedHandlers /\ r.st = "done" /\ r.ran = <<"requireAuth">>) =>
       Answered(r, 401, "Unauthorised")
  /\ (r.route = "refresh" /\ r.st = "done" /\ r.res.status # 200) =>
       Answered(r, 401, "Invalid token")

C7_SingleFailureKind ==
  [][\A i \in ReqIds : C7_Step(i) /\ C7_Response(reqs'[i])]_vars

\* a refresh token whose expiry was pushed back under the old signature
C7_Witness ==
  \E i \in ReqIds : \E t \in IssuedRefresh :
    /\ reqs[i].route = "refresh"
    /\ reqs[i].body.refreshToken = [t EXCEPT !.exp = t.exp + 1]
    /\ Answered(reqs[i], 401, "Invalid token")

(***************************************************************************)
(* C8  The role guard answers a request whose attached identity has a role *)
(* outside the allow-set (a student token on an admin route) with          *)
(* 403 'Forbidden', never with 401; with a role in the allow-set it calls  *)
(* the next callback without an error.                                     *)
(***************************************************************************)
C8_Step(i) ==
  (/\ Stage(reqs[i]) = "requireRole"
   /\ reqs'[i] # reqs[i]
   /\ reqs[i].user.set
   /\ reqs[i].user.role \in Roles) =>
     IF reqs[i].user.role = GuardRole
     THEN /\ reqs'[i].st = "run"
          /\ reqs'[i].pc = reqs[i].pc + 1
          /\ reqs'[i].err = NoError
     ELSE /\ reqs'[i].st = "error"
          /\ reqs'[i].err = createError(403, "Forbidden")

C8_Response(r) ==
  (/\ r.st = "done"
   /\ r.ran = <<"requireAuth", "requireRole">>
   /\ r.user.set
   /\ r.user.role \in Roles) =>
     Answered(r, 403, "Forbidden")

C9_NoIdentityIsUnauthorised ==
  \A i \in ReqIds :
    (Ran(reqs[i], "requireRole") /\ ~reqs[i].user.set) =>
       Failed(reqs[i], 401, "Unauthorised")

(***************************************************************************)
(* C10  The scheme word is matched without regard to case: for a valid     *)
(* access token t, 'bearer t' and 'BEARER t' are authenticated like        *)
(* 'Bearer t'; a header with another scheme, or one that is not exactly a  *)
(* scheme and a token, is answered 401.                                    *)
(***************************************************************************)
C10_SchemeIsCaseInsensitive ==
  \A i \in ReqIds :
    (reqs[i].route \in ProtectedHandlers /\ Ran(reqs[i], "requireAuth")) =>
      /\ \A t \in IssuedAccess :
           (/\ ToLower(reqs[i].hdr.scheme) = ToLower(Bearer)
            /\ reqs[i].hdr.rest = <<t>>
            /\ now < t.exp) =>
              /\ reqs[i].user.set
              /\ reqs[i].user.sub = t.sub
              /\ reqs[i].user.role = t.role
      /\ (\/ ToLower(reqs[i].hdr.scheme) # ToLower(Bearer)
          \/ Len(reqs[i].hdr.rest) # 1) =>
              /\ reqs[i].user = NoUser
              /\ Failed(reqs[i], 401, "Unauthorised")

(***************************************************************************)
(* C11  A register request whose email, trimmed and in lower case, is the  *)
(* email of an account is answered 409 'Email already in use' and creates  *)
(* nothing; of two register requests for the same normalized email that    *)
(* are in flight together, one is answered 201 and the other 409.          *)
(***************************************************************************)
C11_Duplicate(i) ==
  (/\ Stage(reqs[i]) = "register"
   /\ reqs'[i] # reqs[i]
   /\ registerSchemaError(reqs[i].body) = ""
   /\ IdsByEmail(NormaliseEmail(reqs[i].body.email)) # {}) =>
     /\ reqs'[i].st = "error"
     /\ reqs'[i].err = createError(409, "Email already in use")
     /\ users' = users

C11_Pair(r, q) ==
  (/\ r.route = "register" /\ r.st = "done" /\ r.res.status = 201
   /\ q.route = "register" /\ q.st = "done"
   /\ registerSchemaError(q.body) = ""
   /\ NormaliseEmail(q.body.email) = NormaliseEmail(r.body.email)) =>
     Answered(q, 409, "Email already in use")

C11_DuplicateEmailIsConflict ==
  [][\A i \in Conns :
       /\ C11_Duplicate(i)
       /\ \A j \in Conns \ {i} : C11_Pair(reqs'[i], reqs'[j])]_vars

(***************************************************************************)
(* C12  A failed login gives one generic signal: a login with an email     *)
(* that has no account and a login with the email of an account and a      *)
(* wrong password get the same response, 401 'Invalid credentials' with    *)
(* nothing else in it, and no token is issued for either.                  *)
(***************************************************************************)
C12_NoAccount(body) == IdsByEmail(NormaliseEmail(body.email)) = {}

C12_WrongPassword(body) ==
  \E id \in IdsByEmail(NormaliseEmail(body.email)) :
    /\ argon2VerifyThrown(users[id].passwordHash) = NoError
    /\ ~argon2Verify(users[id].passwordHash, body.password)

C12_Step(i) ==
  (/\ Stage(reqs[i]) = "login"
   /\ reqs'[i] # reqs[i]
   /\ loginSchemaError(reqs[i].body) = ""
   /\ C12_NoAccount(reqs[i].body) \/ C12_WrongPassword(reqs[i].body)) =>
     /\ reqs'[i].st = "error"
     /\ reqs'[i].err = createError(401, "Invalid credentials")
     /\ reqs'[i].res = NoResponse
     /\ issued' = issued

C12_Response(r) ==
  (r.route = "login" /\ r.st = "done" /\ r.res.status = 401) =>
     Answered(r, 401, "Invalid credentials")

C12_FailedLoginIsGeneric ==
  [][\A i \in Conns : C12_Step(i) /\ C12_Response(reqs'[i])]_vars

\* the two failures side by side: the responses are equal
C12_Witness ==
  /\ reqs[1].route = "login" /\ reqs[2].route = "login"
  /\ C12_NoAccount(reqs[1].body)
  /\ C12_WrongPassword(reqs[2].body)
  /\ Answered(reqs[1], 401, "Invalid credentials")
  /\ reqs[2].st = "done"
  /\ reqs[2].res = reqs[1].res

(***************************************************************************)
(* C13  After a register request was answered 201, a login with the same   *)
(* email and the same password is answered 200 with an accessToken and a   *)
(* refreshToken, and the two tokens differ.                                *)
(***************************************************************************)
C13_Registered(body) ==
  \E j \in Conns :
    /\ reqs[j].route = "register"
    /\ reqs[j].st = "done"
    /\ reqs[j].res.status = 201
    /\ reqs[j].body.email = body.email
    /\ reqs[j].body.password = body.password

C13_Step(i) ==
  (/\ Stage(reqs[i]) = "login"
   /\ reqs'[i] # reqs[i]
   /\ C13_Registered(reqs[i].body)) =>
     \/ reqs'[i].st = "run" /\ reqs'[i].await = "updateById"
     \/ /\ reqs'[i].st = "done"
        /\ reqs'[i].res.status = 200
        /\ reqs'[i].res.accessToken.kind = "jwt"
        /\ reqs'[i].res.refreshToken.kind = "jwt"
        /\ reqs'[i].res.accessToken # reqs'[i].res.refreshToken

C13_LoginAfterRegister == [][\A i \in Conns : C13_Step(i)]_vars

(***************************************************************************)
(* C14  The stored password digest is never serialized outward: no         *)
(* successful response of register, login, refresh, me, updateMe, list,    *)
(* getById or adminUpdate holds a passwordHash or resetTokenHash field, or *)
(* the plaintext of a password.                                            *)
(***************************************************************************)
\* the plaintexts of the passwords of the accounts
C14_Plaintexts == {users[id].passwordHash[3] : id \in DOMAIN users}

C14_Tokens(res) == {res.accessToken, res.refreshToken}

C14_NoDigestInResponse ==
  \A i \in Conns :
    (reqs[i].st = "done" /\ reqs[i].res.status \in {200, 201}) =>
      /\ \A doc \in reqs[i].res.docs :
           /\ DOMAIN doc \cap {"passwordHash", "resetTokenHash", "password"} = {}
           /\ \A f \in DOMAIN doc \cap {"_id", "id", "name", "role"} :
                doc[f] \notin C14_Plaintexts
      /\ \A t \in C14_Tokens(reqs[i].res) :
           {t.sub, t.role, t.typ} \cap C14_Plaintexts = {}

\* GET /users lists the account that register made, without its digest
C14_Witness ==
  \E i \in Conns :
    /\ reqs[i].route = "list"
    /\ reqs[i].st = "done"
    /\ reqs[i].res.status = 200
    /\ \E doc \in reqs[i].res.docs :
         /\ doc._id \notin DOMAIN SeedUsers("mentor")
         /\ DOMAIN doc = {"_id"} \cup (DOMAIN users[doc._id] \ {"passwordHash"})

(***************************************************************************)
(* C15  A successful POST /users/refresh answers with a new access token   *)
(* only, never with a refresh token, and refresh tokens are not rotated:   *)
(* the token that was presented stays valid and is accepted again, any     *)
(* number of times, until it expires.                                      *)
(***************************************************************************)
C15_Step(i) ==
  LET t == reqs[i].body.refreshToken IN
  (/\ Stage(reqs[i]) = "refresh"
   /\ reqs'[i] # reqs[i]
   /\ t \in IssuedRefresh) =>
     /\ {u \in issued' : u.typ = "refresh"} = {u \in issued : u.typ = "refresh"}
     /\ IF now < t.exp
        THEN /\ reqs'[i].st = "done"
             /\ reqs'[i].res =
                  [NoResponse EXCEPT
                     !.status = 200,
                     !.accessToken = signAccess(t.sub, users[t.sub].role, now)]
             /\ jwtVerify(t, env.jwtRefreshSecret, now')
        ELSE /\ reqs'[i].st = "error"
             /\ reqs'[i].err = createError(401, "Invalid token")

C15_RefreshDoesNotRotate == [][\A i \in Conns : C15_Step(i)]_vars

\* the same refresh token exchanged twice
C15_Witness ==
  /\ reqs[1].route = "refresh" /\ reqs[2].route = "refresh"
  /\ reqs[1].body.refreshToken \in IssuedRefresh
  /\ reqs[2].body.refreshToken = reqs[1].body.refreshToken
  /\ reqs[1].st = "done" /\ reqs[1].res.status = 200
  /\ reqs[2].st = "done" /\ reqs[2].res.status = 200
  /\ reqs[2].res.refreshToken = NoToken

(***************************************************************************)
(* C16  Login bookkeeping changes with the outcome of every login attempt  *)
(* for an account: a successful login sets failedLoginCount to 0 and       *)
(* stamps lastLoginAt, and a failed attempt (wrong password) changes the   *)
(* failedLoginCount of the account.                                        *)
(***************************************************************************)
C16_Success(i) ==
  (/\ Stage(reqs[i]) = "login"
   /\ reqs'[i].st = "done"
   /\ reqs'[i].res.status = 200) =>
     \E id \in DOMAIN users :
       /\ users[id].email = NormaliseEmail(reqs[i].body.email)
       /\ users'[id].failedLoginCount = 0
       /\ users'[id].lastLoginAt = now

C16_Failure(i) ==
  (/\ Stage(reqs[i]) = "login"
   /\ reqs'[i] # reqs[i]
   /\ loginSchemaError(reqs[i].body) = ""
   /\ C12_WrongPassword(reqs[i].body)) =>
     \A id \in IdsByEmail(NormaliseEmail(reqs[i].body.email)) :
       users'[id].failedLoginCount # users[id].failedLoginCount

C16_EveryAttemptIsCounted ==
  [][\A i \in Conns : C16_Success(i) /\ C16_Failure(i)]_vars

(***************************************************************************)
(* C17  Verification is stateless, there is no revocation: an access token *)
(* keeps being accepted by requireAuth, with the role it was issued with,  *)
(* until it expires, whatever happens to the account afterwards (its role  *)
(* changed by an admin, isActive set to false); a token issued while the   *)
(* account was admin still passes requireRole('admin') after the account   *)
(* was demoted.                                                            *)
(***************************************************************************)
C17_Accepted(r, t) ==
  /\ r.user.set
  /\ r.user.sub = t.sub
  /\ r.user.role = t.role
  /\ ~Failed(r, 401, "Unauthorised")

C17_PassesGuard(r) ==
  /\ r.pc = 3
  /\ r.st = "error" => r.err.status \notin {401, 403}
  /\ r.st = "done" => r.res.status \notin {401, 403}

C17_TokenOutlivesAccountChanges ==
  \A i \in Conns : \A t \in IssuedAccess :
    (/\ reqs[i].route \in ProtectedHandlers
     /\ reqs[i].hdr = BearerHeader(t)
     /\ now < t.exp) =>
       /\ Ran(reqs[i], "requireAuth") => C17_Accepted(reqs[i], t)
       /\ (/\ t.role = "admin"
           /\ reqs[i].route \in AdminRoutes
           /\ Ran(reqs[i], "requireRole")) => C17_PassesGuard(reqs[i])

\* every request came over connection 1, one after the other; the last one,
\* GET /users with the admin token of an account, lists that account as an
\* inactive student
C17_Witness ==
  /\ reqs[2] = IdleReq
  /\ reqs[1].route = "list"
  /\ reqs[1].st = "done"
  /\ reqs[1].res.status = 200
  /\ \E t \in IssuedAccess :
       /\ t.role = "admin"
       /\ now < t.exp
       /\ reqs[1].hdr = BearerHeader(t)
       /\ \E doc \in reqs[1].res.docs :
            doc._id = t.sub /\ doc.role = "student" /\ ~doc.isActive

(***************************************************************************)
(* C18  A stored digest that is malformed counts as a failed verification, *)
(* not as a crash: a login for an account whose passwordHash is no         *)
(* well-formed digest ends in 401 'Invalid credentials', not in a 500 and  *)
(* not in a success.                                                       *)
(***************************************************************************)
C18_MalformedDigest(body) ==
  \E id \in IdsByEmail(NormaliseEmail(body.email)) :
    argon2VerifyThrown(users[id].passwordHash) # NoError

C18_MalformedDigestIsInvalidCredentials ==
  \A i \in Conns :
    (/\ reqs[i].route = "login"
     /\ reqs[i].st \in {"error", "done"}
     /\ loginSchemaError(reqs[i].body) = ""
     /\ C18_MalformedDigest(reqs[i].body)) =>
       Failed(reqs[i], 401, "Invalid credentials")

(***************************************************************************)
(* C19  Login bookkeeping and admin updates do not lose each other's       *)
(* writes: however a successful login for account A and an admin           *)
(* PATCH /users/:id for A interleave, the record of A ends with the        *)
(* admin's name, role and isActive and with the login's bookkeeping        *)
(* (failedLoginCount = 0, lastLoginAt stamped); each of the two is one     *)
(* store update that writes its own fields only.                           *)
(***************************************************************************)
C19_LoginWrite(i) ==
  (Stage(reqs[i]) = "login" /\ reqs'[i].st = "done") =>
     LET A == reqs'[i].res.accessToken.sub IN
     users' = [users EXCEPT ![A].lastLoginAt = now, ![A].failedLoginCount = 0]

C19_AdminWrite(i) ==
  (Stage(reqs[i]) = "adminUpdate" /\ reqs'[i].st = "done") =>
     LET A == reqs'[i].id
         p == reqs'[i].patch IN
     users' = [users EXCEPT ![A].name = p.name, ![A].role = p.role,
                            ![A].isActive = p.isActive]

\* r: the login of A, q: the PATCH for A, both answered 200
C19_Both(r, q) ==
  /\ r.route = "login" /\ r.st = "done" /\ r.res.status = 200
  /\ q.route = "adminUpdate" /\ q.st = "done" /\ q.res.status = 200
  /\ q.id = r.res.accessToken.sub

C19_Final(r, q, store) ==
  C19_Both(r, q) =>
     LET a == store[q.id] IN
     /\ a.name = q.patch.name
     /\ a.role = q.patch.role
     /\ a.isActive = q.patch.isActive
     /\ a.failedLoginCount = 0
     /\ a.lastLoginAt >= r.res.accessToken.iat

C19_NoLostUpdate ==
  [][\A i \in Conns :
       /\ C19_LoginWrite(i)
       /\ C19_AdminWrite(i)
       /\ \A j \in Conns \ {i} : C19_Final(reqs'[i], reqs'[j], users')]_vars

\* the PATCH wrote between the read and the write of the login: the token has
\* the role of before the PATCH, the answer of the PATCH has no lastLoginAt yet
C19_Witness ==
  \E i, j \in Conns :
    /\ C19_Both(reqs[i], reqs[j])
    /\ reqs[i].res.accessToken.role # reqs[j].patch.role
    /\ \E doc \in reqs[j].res.docs : doc.lastLoginAt = NoDate
    /\ users[reqs[j].id].lastLoginAt # NoDate
    /\ users[reqs[j].id].role = reqs[j].patch.role

(***************************************************************************)
(* C20  POST /users/refresh with a body that has no refreshToken is        *)
(* answered 400 'Missing refresh token', which is not the 401 'Invalid     *)
(* token' of a token that is present and invalid.                          *)
(***************************************************************************)
C20_MissingRefreshTokenIs400 ==
  \A i \in ReqIds :
    (/\ reqs[i].route = "refresh"
     /\ reqs[i].st \in {"error", "done"}
     /\ Falsy(reqs[i].body.refreshToken)) =>
       /\ Failed(reqs[i], 400, "Missing refresh token")
       /\ ~Failed(reqs[i], 401, "Invalid token")

(***************************************************************************)
(* C21  connectMongo always terminates and makes at most RETRIES = 10      *)
(* connection attempts: it returns at the first attempt that succeeds,     *)
(* waits DELAY_MS between a failed attempt and the next one, after the     *)
(* 10th consecutive failure throws that attempt's error with no further    *)
(* attempt and no further wait; with a missing URI it throws before any    *)
(* attempt.                                                                *)
(***************************************************************************)
\* the attempts to connect made so far
C21_Attempts == Len(mongo.log)
\* connectMongo is over: it returned or threw (and start() may have gone on)
C21_Over == mongo.pc \in {"returned", "thrown", "listening", "exit"}
C21_Threw == mongo.pc \in {"thrown", "exit"}

\* at most RETRIES attempts; no attempt follows one that succeeded, and
\* connectMongo returns only after one that succeeded; DELAY_MS was waited
\* before each attempt that followed a failed one, and at no other time; what
\* is thrown with a URI is the error of the last attempt, and it is thrown
\* as soon as the RETRIES-th attempt has failed (by the definition that
\* retries, not before); with a missing URI there is no attempt
C21_RetriesAreBounded ==
  /\ C21_Attempts <= RETRIES
  /\ \A k \in 1..(C21_Attempts - 1) : mongo.log[k] # "ok"
  /\ mongo.pc \in {"returned", "listening"} => mongo.log[C21_Attempts] = "ok"
  /\ mongo.waited = DELAY_MS * (IF mongo.pc = "connect" THEN C21_Attempts
                                ELSE IF C21_Attempts = 0 THEN 0
                                ELSE C21_Attempts - 1)
  /\ C21_Threw /\ mongo.uri # Undefined =>
       /\ C21_Attempts >= 1
       /\ mongo.thrown = mongo.log[C21_Attempts]
       /\ mongo.thrown # "ok"
       /\ dbDef = 1 => C21_Attempts = RETRIES
  /\ (C21_Attempts = RETRIES /\ mongo.log[RETRIES] # "ok") => C21_Threw
  /\ mongo.uri = Undefined =>
       /\ C21_Attempts = 0
       /\ mongo.pc \in {"start", "thrown", "exit"}

\* C21: connectMongo keeps within RETRIES attempts, with the waits and the
\* outcome described above, and always terminates
C21_ConnectTerminates == []C21_RetriesAreBounded /\ <>C21_Over

\* the 10th attempt failed after nine waits and its error was thrown
C21_Witness ==
  /\ mongo.pc = "thrown"
  /\ C21_Attempts = RETRIES
  /\ mongo.waited = DELAY_MS * (RETRIES - 1)
  /\ mongo.thrown = mongo.log[RETRIES]

(***************************************************************************)
(* C22  The access token of POST /users/refresh carries the role the       *)
(* account has in the store at the time of the refresh, not the role it    *)
(* had when the refresh token was issued; a refresh for a subject that has *)
(* no account is rejected with 401 and issues no token.                    *)
(***************************************************************************)
\* a refresh whose token names a subject without an account fails with 401
\* 'Invalid token' and has no token in its answer
C22_NoAccount(r) ==
  (/\ r.route = "refresh"
   /\ r.body.refreshToken.kind = "jwt"
   /\ ~HasId(r.body.refreshToken.sub)
   /\ r.st \in {"error", "done"}) =>
     /\ Failed(r, 401, "Invalid token")
     /\ r.res.accessToken = NoToken
     /\ r.res.refreshToken = NoToken

C22_Step(i) ==
  LET t == reqs[i].body.refreshToken IN
  /\ C22_NoAccount(reqs'[i])
  /\ (Stage(reqs[i]) = "refresh" /\ reqs'[i] # reqs[i]) =>
       IF reqs'[i].st = "done"
       THEN /\ HasId(t.sub)
            /\ reqs'[i].res.status = 200
            /\ reqs'[i].res.accessToken = signAccess(t.sub, users[t.sub].role, now)
            /\ issued' = issued \cup {reqs'[i].res.accessToken}
       ELSE issued' = issued

\* C22: a refresh that succeeds answers with an access token that carries the
\* role read from the store by this refresh; a refresh for a subject without
\* an account ends in 401 and adds no token
C22_RefreshReadsTheRole == [][\A i \in Conns : C22_Step(i)]_vars

\* every request came over connection 1: a login of the admin, the PATCH
\* that makes that account a student, and the refresh with the refresh token
\* of the login, answered with a student token
C22_Witness ==
  /\ reqs[2] = IdleReq
  /\ reqs[1].route = "refresh"
  /\ reqs[1].st = "done"
  /\ reqs[1].res.status = 200
  /\ reqs[1].res.accessToken.role = "student"
  /\ reqs[1].body.refreshToken \in IssuedRefresh
  /\ \E a \in IssuedAccess :
       /\ a.sub = reqs[1].body.refreshToken.sub
       /\ a.iat = reqs[1].body.refreshToken.iat
       /\ a.role = "admin"

\* the refresh token of the removed account was refused
C22_Removed ==
  \E i \in Conns :
    /\ reqs[i].route = "refresh"
    /\ reqs[i].body.refreshToken = signRefresh(RemovedId, 0)
    /\ Answered(reqs[i], 401, "Invalid token")

(***************************************************************************)
(* C23  No privilege escalation without an admin: every account created by *)
(* register has role student; register, login, refresh, GET /users/me and  *)
(* PATCH /users/me change the role of no account; a role changes only      *)
(* through PATCH /users/:id of a request authenticated with an admin-role  *)
(* access token; from a store with no admin account and no admin token no  *)
(* reachable state contains an admin account.                              *)
(***************************************************************************)
C23_NoAdmin == \A id \in DOMAIN users : users[id].role # "admin"
C23_NoAdminToken == \A t \in issued : ~(AccessSigned(t) /\ t.role = "admin")

\* the request that runs PATCH /users/:id came with an admin access token
C23_ByAdmin(r) ==
  /\ Stage(r) = "adminUpdate"
  /\ r.user.set
  /\ r.user.role = "admin"
  /\ \E t \in HeaderTokens(r) : AccessSigned(t) /\ t.role = "admin" /\ t \in issued

C23_Step ==
  /\ \A id \in DOMAIN users' \ DOMAIN users :
       /\ users'[id].role = "student"
       /\ \E i \in ReqIds : Stage(reqs[i]) = "register"
  /\ \A id \in DOMAIN users :
       /\ id \in DOMAIN users'
       /\ users'[id].role # users[id].role =>
            \E i \in ReqIds : C23_ByAdmin(reqs[i]) /\ reqs'[i] # reqs[i]
  /\ (C23_NoAdmin /\ C23_NoAdminToken) => (C23_NoAdmin /\ C23_NoAdminToken)'

\* C23: a step that adds an account adds a student; a step that changes a
\* role is the handler of PATCH /users/:id run for an admin token; a state
\* without admin account and admin token is followed by such states only
C23_NoEscalation == [][C23_Step]_vars

\* in a store without admin, a logged-in client has sent PATCH /users/me
\* with { role: 'admin' }: it was answered 200 and is no admin
C23_Witness ==
  /\ C23_NoAdmin
  /\ C23_NoAdminToken
  /\ \E i \in ReqIds :
       /\ reqs[i].route = "updateMe"
       /\ reqs[i].st = "done"
       /\ reqs[i].res.status = 200
       /\ reqs[i].patch = EscalationPatch
       /\ \E doc \in reqs[i].res.docs : doc.name = "Zed" /\ doc.role # "admin"

\* an admin has made another account an admin
C23_AdminMakesAdmin ==
  \E i \in ReqIds :
    /\ reqs[i].route = "adminUpdate"
    /\ reqs[i].st = "done"
    /\ reqs[i].res.status = 200
    /\ reqs[i].id = "u2"
    /\ users["u2"].role = "admin"

(***************************************************************************)
(* C24  Tokens are only minted after verification: each access token       *)
(* returned to a client for subject s was issued by a login that verified  *)
(* the password against s's stored digest or by a refresh that verified a  *)
(* refresh-class token for s, and each refresh token by such a login;      *)
(* register and failed requests never return a token.                      *)
(***************************************************************************)
\* the tokens in the answer of a request
C24_Tokens(r) == {r.res.accessToken, r.res.refreshToken} \ {NoToken}

\* r is a login whose password matches the stored digest of account id, and
\* its answer q holds an access and a refresh token for id
C24_ByLogin(r, q) ==
  /\ Stage(r) = "login"
  /\ \E id \in DOMAIN users :
       /\ users[id].email = NormaliseEmail(r.body.email)
       /\ argon2Verify(users[id].passwordHash, r.body.password)
       /\ q.res.accessToken = signAccess(id, q.res.accessToken.role, now)
       /\ q.res.refreshToken = signRefresh(id, now)

\* r is a refresh whose token is a valid refresh-class token, and its answer
\* q holds an access token for the subject of that token and nothing else
C24_ByRefresh(r, q) ==
  LET t == r.body.refreshToken IN
  /\ Stage(r) = "refresh"
  /\ t.kind = "jwt"
  /\ t.sig = Hmac(env.jwtRefreshSecret, t.sub, t.role, t.typ, t.iat, t.exp)
  /\ now < t.exp
  /\ t.typ = "refresh"
  /\ q.res.accessToken = signAccess(t.sub, q.res.accessToken.role, now)
  /\ q.res.refreshToken = NoToken

C24_Step(i) ==
  /\ (reqs'[i] # reqs[i] /\ C24_Tokens(reqs'[i]) # {}) =>
       /\ reqs'[i].st = "done"
       /\ reqs'[i].res.status = 200
       /\ C24_ByLogin(reqs[i], reqs'[i]) \/ C24_ByRefresh(reqs[i], reqs'[i])
  /\ (\/ reqs'[i].route \notin {"login", "refresh"}
      \/ reqs'[i].st # "done"
      \/ reqs'[i].res.status # 200) => C24_Tokens(reqs'[i]) = {}

\* C24: a step that puts a token into an answer is the end of a login whose
\* password was verified or of a refresh whose refresh-class token was
\* verified, the token is for that subject, and no token is minted elsewhere
C24_MintedAfterVerification ==
  [][/\ \A i \in ReqIds : C24_Step(i)
     /\ issued' \ issued \subseteq UNION {C24_Tokens(reqs'[i]) : i \in ReqIds}]_vars

\* a refresh token that came from a login was exchanged for an access token
C24_Witness ==
  \E i \in ReqIds :
    /\ reqs[i].route = "refresh"
    /\ reqs[i].st = "done"
    /\ reqs[i].res.status = 200
    /\ reqs[i].body.refreshToken \in IssuedRefresh
    /\ reqs[i].res.accessToken \in IssuedAccess
    /\ reqs[i].res.accessToken.sub = reqs[i].body.refreshToken.sub

(***************************************************************************)
(* C25  Email uniqueness is an invariant of the account store: after any   *)
(* sequence and any interleaving of register requests, concurrent ones     *)
(* that pass the existence check together included, no two accounts have  *)
(* the same normalized (trimmed, lowercase) email.                         *)
(***************************************************************************)
\* C25: no two accounts of the store have the same normalized email
C25_EmailsAreUnique ==
  \A a \in DOMAIN users : \A b \in DOMAIN users \ {a} :
    NormaliseEmail(users[a].email) # NormaliseEmail(users[b].email)

\* two registers with the same normalized email were past the existence check
\* together: the first created the account, the create of the second was
\* refused by the index
C25_Witness ==
  /\ reqs[1].route = "register" /\ reqs[2].route = "register"
  /\ NormaliseEmail(reqs[1].body.email) = NormaliseEmail(reqs[2].body.email)
  /\ reqs[1].st = "done" /\ reqs[1].res.status = 201
  /\ Ran(reqs[2], "register")
  /\ reqs[2].err = LibraryError("E11000 duplicate key error")
  /\ Cardinality(IdsByEmail(NormaliseEmail(reqs[1].body.email))) = 1

(***************************************************************************)
(* C26  Every request that ends in an error response leaves the account    *)
(* store unchanged: a register answered 400 or 409, a login answered 400   *)
(* or 401, a refresh answered 401, a me/updateMe answered 400/401/404 and  *)
(* an admin request answered 400/401/403/404 create no account and modify  *)
(* no field of any account.                                                *)
(***************************************************************************)
\* the step ends request i with a success
C26_Succeeds(i) ==
  /\ reqs[i].st = "run"
  /\ reqs'[i].st = "done"
  /\ reqs'[i].res.status \in {200, 201}

C26_Step ==
  /\ users' # users => \E i \in ReqIds : C26_Succeeds(i)
  /\ \A i \in ReqIds :
       /\ (reqs[i].st = "run" /\ reqs'[i].st = "error") => users' = users
       /\ reqs[i].st = "error" =>
            /\ users' = users
            /\ reqs'[i].st = "done"
            /\ reqs'[i].res.status >= 400
       /\ (reqs[i].st = "run" /\ reqs'[i].st = "run") => users' = users

\* C26: the store changes only in the step that answers a request with 200
\* or 201; no step of a request that goes to the error handler, and no step
\* of the error handler, changes it
C26_ErrorsLeaveTheStore == [][C26_Step]_vars

\* an admin sent PATCH /users/u2 { role: 'root' }: answered 400, and u2 has
\* the role it had
C26_Witness ==
  \E i \in ReqIds :
    /\ reqs[i].route = "adminUpdate"
    /\ reqs[i].user.role = "admin"
    /\ reqs[i].id = "u2"
    /\ reqs[i].patch.role = "root"
    /\ reqs[i].st = "done"
    /\ reqs[i].res.status = 400
    /\ users["u2"].role = "mentor"

(***************************************************************************)
(* C27  The isActive flag and the failed-login count never gate            *)
(* authentication: for an account with a correct password, login succeeds  *)
(* and refresh with a valid refresh token succeeds, whatever the account's *)
(* isActive and however many failed logins preceded; no sequence of        *)
(* requests locks an account out.                                          *)
(***************************************************************************)
\* body holds the email of an account and the password of its digest
C27_CorrectPassword(body) ==
  /\ loginSchemaError(body) = ""
  /\ \E id \in IdsByEmail(NormaliseEmail(body.email)) :
       /\ argon2VerifyThrown(users[id].passwordHash) = NoError
       /\ argon2Verify(users[id].passwordHash, body.password)

C27_Step(i) ==
  /\ (/\ Stage(reqs[i]) = "login"
      /\ reqs'[i] # reqs[i]
      /\ C27_CorrectPassword(reqs[i].body)) =>
        \/ reqs'[i].st = "run" /\ reqs'[i].await = "updateById"
        \/ /\ reqs'[i].st = "done"
           /\ reqs'[i].res.status = 200
           /\ reqs'[i].res.accessToken.kind = "jwt"
           /\ reqs'[i].res.refreshToken.kind = "jwt"
  /\ (/\ Stage(reqs[i]) = "refresh"
      /\ reqs'[i] # reqs[i]
      /\ reqs[i].body.refreshToken \in IssuedRefresh
      /\ now < reqs[i].body.refreshToken.exp
      /\ HasId(reqs[i].body.refreshToken.sub)) =>
        /\ reqs'[i].st = "done"
        /\ reqs'[i].res.status = 200
        /\ reqs'[i].res.accessToken.kind = "jwt"

\* C27: in every state, whatever isActive and failedLoginCount are, a login
\* with the password of the account goes on to its answer 200 with both
\* tokens, and a refresh with an unexpired refresh token of the account is
\* answered 200 with an access token
C27_NeverLockedOut == [][\A i \in ReqIds : C27_Step(i)]_vars

\* an account that an admin has set inactive has logged in
C27_Witness ==
  \E i \in ReqIds :
    /\ reqs[i].route = "login"
    /\ reqs[i].st = "done"
    /\ reqs[i].res.status = 200
    /\ ~users[reqs[i].res.accessToken.sub].isActive

====
